---- MODULE Spec2Model ----
(***************************************************************************)
(* A model of the blog backend: the three TTL caches (cache.py), the       *)
(* sliding-window rate limiter (middleware.py) and the listing handler     *)
(* (main.py).  Time is in seconds; the clock moves along TimePoints.       *)
(***************************************************************************)
EXTENDS Integers, Sequences, FiniteSets, TLC

VARIABLES
    now,                  \* the clock read by time.time() / time.monotonic()
    requests_per_minute,  \* RateLimitMiddleware.requests_per_minute
    requests_per_hour,    \* RateLimitMiddleware.requests_per_hour
    enabled,              \* RateLimitMiddleware.enabled
    buckets,              \* RateLimitMiddleware.buckets: identity -> timestamps
    last,                 \* the last dispatch: its request, locals and response
    buckets2,             \* a second limiter instance, for the two-history comparison
    seenY,                \* the last decision returned to client IsoY by `buckets`
    seenY2,               \* the last decision returned to client IsoY by `buckets2`
    cache_ttl_seconds,    \* settings.cache_ttl_seconds
    posts_list_cache,     \* cache._posts_list_cache
    post_cache,           \* cache._post_cache
    slug_map_cache,       \* cache._slug_map_cache
    cache_op,             \* the last call of a cache.py function and what it returned
    content,              \* the content directory: what listing and reading it yield
    api,                  \* the last request to a route of main.py and its response
    checked,              \* the last slug given to the slug validators and their answers
    tasks                 \* the requests in flight: where each is between its awaits

limiterVars == <<requests_per_minute, requests_per_hour, enabled, buckets, last,
                 buckets2, seenY, seenY2>>

cacheVars == <<cache_ttl_seconds, posts_list_cache, post_cache, slug_map_cache, cache_op>>

apiVars == <<content, api>>

taskVars == <<checked, tasks>>

vars == <<now, limiterVars, cacheVars, apiVars, taskVars>>

-----------------------------------------------------------------------------
(* Bounds of the model *)

MaxBoundary == 3
MaxPerMinute == 1
MaxPerHour == 2
MaxHdrLen == 2
MaxBuckets == 2
MaxCacheMinutes == 1

\* How many calls are in flight at once.
MaxTasks == 3

\* How many requests to the handlers are in flight at once.
MaxFlights == 2

(* Program constants *)

MINUTE == 60
HOUR == 3600
RETRY_AFTER_MINUTE == 60
RETRY_AFTER_HOUR == 3600
STATUS_TOO_MANY == 429
STATUS_OK == 200
STATUS_INTERNAL == 500
PER_MINUTE == 60
PER_HOUR == 1000

-----------------------------------------------------------------------------
(* Time *)

\* The instants the clock can show: the whole hours and the minute after
\* each (0, 60, 3600, 3660, 7200, ...), up to MaxBoundary of them, and the
\* second before each, so that both sides of each window boundary
\* (59 s / 60 s, 3599 s / 3600 s) occur.
TimePoints ==
    { t \in { (k \div 2) * HOUR + (k % 2) * MINUTE - s :
                k \in 0..MaxBoundary, s \in {0, 1} } : t >= 0 }

Max(a, b) == IF a >= b THEN a ELSE b

Min(a, b) == IF a <= b THEN a ELSE b

-----------------------------------------------------------------------------
(* Requests *)

\* An optional value is a sequence of length 0 (absent) or 1 (present).
Absent == << >>

Some(v) == << v >>

\* What a call gives: the exception it raised, or the value it returned.
Raised(exc) == [ raised |-> Some(exc), value |-> << >> ]

Returned(v) == [ raised |-> Absent, value |-> v ]

\* Header values and identities are sequences of characters.
HdrChars == {"a", ",", " "}

RECURSIVE SeqsUpTo(_, _)
SeqsUpTo(S, n) ==
    IF n = 0 THEN { << >> }
    ELSE LET shorter == SeqsUpTo(S, n - 1)
         IN  shorter \cup { Append(s, c) : s \in { x \in shorter : Len(x) = n - 1 }, c \in S }

UNKNOWN == <<"u", "n", "k", "n", "o", "w", "n">>

HEALTH_PATH == "/health"

Paths == {HEALTH_PATH, "/posts"}

\* Every request over the header alphabet: X-Forwarded-For absent or any value
\* up to MaxHdrLen characters, X-Real-IP absent, empty or "b", a peer or none.
AllRequests ==
    [ path : Paths,
      xff : {Absent} \cup { Some(v) : v \in SeqsUpTo(HdrChars, MaxHdrLen) },
      real_ip : {Absent, Some(<< >>), Some(<<"b">>)},
      peer : {Absent, Some(<<"c">>)} ]

\* The requests of the limiter runs: a client behind a proxy and an anonymous one.
LimiterRequests ==
    { r \in AllRequests :
        /\ r.xff \in {Absent, Some(<<"a">>)}
        /\ r.real_ip = Absent
        /\ r.peer = Absent }

\* The requests of the identity runs: every header combination, one path.
IdentityRequests == { r \in AllRequests : r.path # HEALTH_PATH }

-----------------------------------------------------------------------------
(* Slug validation (content_store.py, models.py, main.py) *)

\* 200 in content_store.py; scaled down so that longer slugs occur.
MAX_SLUG_LENGTH == 2

\* The characters of the model's slugs, and those of them in [a-zA-Z0-9_-].
SlugAlphabet == {"a", "-", "/", ".", " ", "\n"}

SlugClass == {"a", "-"}

\* Every string of up to one character more than the limit.
SlugStrings == SeqsUpTo(SlugAlphabet, MAX_SLUG_LENGTH + 1)

MutAllInClassAny(s) == TRUE

AllInClass(s) == \A i \in 1..Len(s) : s[i] \in SlugClass

MutSlugPatternMatchStrict(s) == Len(s) >= 1 /\ AllInClass(s)

\* SLUG_PATTERN.match(s), Python's re and ^[a-zA-Z0-9_-]+$ : the $ matches
\* at the end of the string and also just before a newline that ends it.
SlugPatternMatch(s) ==
    \/ Len(s) >= 1 /\ AllInClass(s)
    \/ Len(s) >= 2 /\ s[Len(s)] = "\n" /\ AllInClass(SubSeq(s, 1, Len(s) - 1))

\* content_store.validate_slug
validate_slug(slug) ==
    IF slug = << >> THEN Raised("ValueError")
    ELSE IF Len(slug) > MAX_SLUG_LENGTH THEN Raised("ValueError")
    ELSE IF ~SlugPatternMatch(slug) THEN Raised("ValueError")
    ELSE Returned(slug)

\* PostMeta.validate_slug, the field validator of models.py
PostMetaValidateSlug(v) ==
    IF v = << >> THEN Raised("ValueError")
    ELSE IF Len(v) > MAX_SLUG_LENGTH THEN Raised("ValueError")
    ELSE IF ~SlugPatternMatch(v) THEN Raised("ValueError")
    ELSE Returned(v)

\* The route /post/{slug}: a path parameter is one non-empty segment.
RouteMatches(slug) == slug # << >> /\ \A i \in 1..Len(slug) : slug[i] # "/"

MutPathValidAny(slug) == TRUE

\* Path(pattern=..., max_length=200), checked by the framework's validator,
\* whose $ matches at the end of the string only.
PathValid(slug) == Len(slug) >= 1 /\ AllInClass(slug) /\ Len(slug) <= MAX_SLUG_LENGTH

\* The slug gets past the route, the Path validation and the handler's own
\* SLUG_PATTERN.match, and then past validate_slug in load_post_by_slug.
HandlerAccepts(slug) ==
    /\ RouteMatches(slug)
    /\ PathValid(slug)
    /\ SlugPatternMatch(slug)
    /\ validate_slug(slug).raised = Absent

\* The validators applied to one string.
CheckSlug(slug) ==
    /\ checked' = Some([ slug |-> slug,
                         validate_slug |-> validate_slug(slug),
                         post_meta |-> PostMetaValidateSlug(slug),
                         handler |-> HandlerAccepts(slug) ])
    /\ UNCHANGED <<now, limiterVars, cacheVars, apiVars, tasks>>

-----------------------------------------------------------------------------
(* The TTL caches (cache.py).  A cache is cachetools' TTLCache: a sequence   *)
(* of entries, least recently used first, each with the instant it expires. *)

\* 512 in cache.py; scaled down so that the cache fills within the model.
MAX_INDIVIDUAL_POST_CACHE == 2
POSTS_LIST_CACHE_SIZE == 1
SLUG_MAP_CACHE_SIZE == 1

\* The values settings.cache_ttl_seconds takes in the model (any of 0..86400
\* is accepted): no caching, and one minute.
TtlChoices == {0, MINUTE}

DEFAULT_TTL == 300

\* The slugs of the posts of the model.
Slugs == { <<"a">>, <<"-">>, <<"a", "a">> }

\* Keys are strings as sequences, like the slugs.
POSTS_LIST_KEY == <<"posts_list">>

SLUG_MAP_KEY == <<"slug_map">>

EmptyCache == << >>

HasKey(c, key) == \E i \in 1..Len(c) : c[i].key = key

EntryOf(c, key) == c[CHOOSE i \in 1..Len(c) : c[i].key = key]

MutWithoutKeeps(c, key) == c

MutWithoutOthers(c, key) == SelectSeq(c, LAMBDA e : e.key = key)

Without(c, key) == SelectSeq(c, LAMBDA e : e.key # key)

MutExpiredInclusive(e, t) == ~(t <= e.expires)

MutExpiredNever(e, t) == FALSE

\* not (time < link.expires)
Expired(e, t) == ~(t < e.expires)

\* TTLCache.expire(time): every expired entry goes.
Expire(c, t) == SelectSeq(c, LAMBDA e : ~Expired(e, t))

\* key in cache
Contains(c, key, t) == HasKey(c, key) /\ ~Expired(EntryOf(c, key), t)

MutCacheGetMiss(c, key, t) == [ cache |-> c, result |-> Absent ]

\* cache.get(key): an unexpired entry is returned and becomes the most
\* recently used; an expired one is passed over and left in place.
CacheGet(c, key, t) ==
    IF Contains(c, key, t)
    THEN [ cache |-> Append(Without(c, key), EntryOf(c, key)),
           result |-> Some(EntryOf(c, key).value) ]
    ELSE [ cache |-> c, result |-> Absent ]

MutMakeRoomNone(c, key, maxsize) == c

MutMakeRoomAlways(c, key, maxsize) ==
    IF Len(c) < maxsize THEN c ELSE SubSeq(c, Len(c) - maxsize + 2, Len(c))

\* Cache.__setitem__: while there is no room for a new key, popitem() takes
\* the least recently used entry.
MakeRoom(c, key, maxsize) ==
    IF HasKey(c, key) \/ Len(c) < maxsize THEN c
    ELSE SubSeq(c, Len(c) - maxsize + 2, Len(c))

MutCacheSetNoTtl(c, key, value, t, maxsize) ==
    Append(Without(MakeRoom(Expire(c, t), key, maxsize), key),
           [ key |-> key, value |-> value, expires |-> t ])

\* cache[key] = value: expired entries go first, then room is made, and the
\* entry is written with expiry t + ttl as the most recently used.
CacheSet(c, key, value, t, maxsize) ==
    Append(Without(MakeRoom(Expire(c, t), key, maxsize), key),
           [ key |-> key, value |-> value, expires |-> t + cache_ttl_seconds ])

\* len(cache): expired entries go first.
CacheLen(c, t) == Len(Expire(c, t))

\* The caches as the module creates them, with the ttl of the settings.
CachesCreated(ttls) ==
    /\ cache_ttl_seconds \in ttls
    /\ posts_list_cache = EmptyCache
    /\ post_cache = EmptyCache
    /\ slug_map_cache = EmptyCache
    /\ cache_op = Absent

CacheOp(op, cache, key, value, result) ==
    Some([ op |-> op, cache |-> cache, key |-> key, value |-> value, result |-> result ])

\* The values the cache runs store.
PostValues == {"post1"}

ListValues == {"list1", "list2"}

MapValues == {"map1"}

\* _posts_list_cache.get("posts_list")
GetPostsListCached(c, t) == CacheGet(c, POSTS_LIST_KEY, t)

\* _posts_list_cache["posts_list"] = posts
SetPostsListCached(c, posts, t) == CacheSet(c, POSTS_LIST_KEY, posts, t, POSTS_LIST_CACHE_SIZE)

get_posts_list_cached ==
    LET g == GetPostsListCached(posts_list_cache, now)
    IN  /\ posts_list_cache' = g.cache
        /\ cache_op' = CacheOp("get", "posts_list", POSTS_LIST_KEY, Absent, g.result)
        /\ UNCHANGED <<now, limiterVars, apiVars, taskVars, cache_ttl_seconds, post_cache, slug_map_cache>>

set_posts_list_cached(value) ==
    /\ posts_list_cache' = SetPostsListCached(posts_list_cache, value, now)
    /\ cache_op' = CacheOp("set", "posts_list", POSTS_LIST_KEY, Some(value), Absent)
    /\ UNCHANGED <<now, limiterVars, apiVars, taskVars, cache_ttl_seconds, post_cache, slug_map_cache>>

get_post_cached(slug) ==
    LET g == CacheGet(post_cache, slug, now)
    IN  /\ post_cache' = g.cache
        /\ cache_op' = CacheOp("get", "post", slug, Absent, g.result)
        /\ UNCHANGED <<now, limiterVars, apiVars, taskVars, cache_ttl_seconds, posts_list_cache, slug_map_cache>>

set_post_cached(slug, value) ==
    /\ post_cache' = CacheSet(post_cache, slug, value, now, MAX_INDIVIDUAL_POST_CACHE)
    /\ cache_op' = CacheOp("set", "post", slug, Some(value), Absent)
    /\ UNCHANGED <<now, limiterVars, apiVars, taskVars, cache_ttl_seconds, posts_list_cache, slug_map_cache>>

get_slug_map_cached ==
    LET g == CacheGet(slug_map_cache, SLUG_MAP_KEY, now)
    IN  /\ slug_map_cache' = g.cache
        /\ cache_op' = CacheOp("get", "slug_map", SLUG_MAP_KEY, Absent, g.result)
        /\ UNCHANGED <<now, limiterVars, apiVars, taskVars, cache_ttl_seconds, posts_list_cache, post_cache>>

set_slug_map_cached(value) ==
    /\ slug_map_cache' =
          CacheSet(slug_map_cache, SLUG_MAP_KEY, value, now, SLUG_MAP_CACHE_SIZE)
    /\ cache_op' = CacheOp("set", "slug_map", SLUG_MAP_KEY, Some(value), Absent)
    /\ UNCHANGED <<now, limiterVars, apiVars, taskVars, cache_ttl_seconds, posts_list_cache, post_cache>>

MutClearTwo ==
    /\ posts_list_cache' = EmptyCache
    /\ post_cache' = EmptyCache
    /\ cache_op' = CacheOp("clear", "all", << >>, Absent, Absent)
    /\ UNCHANGED <<now, limiterVars, apiVars, taskVars, cache_ttl_seconds, slug_map_cache>>

clear_all_caches ==
    /\ posts_list_cache' = EmptyCache
    /\ post_cache' = EmptyCache
    /\ slug_map_cache' = EmptyCache
    /\ cache_op' = CacheOp("clear", "all", << >>, Absent, Absent)
    /\ UNCHANGED <<now, limiterVars, apiVars, taskVars, cache_ttl_seconds>>

\* len() of each cache, which also drops its expired entries.
get_cache_stats ==
    /\ posts_list_cache' = Expire(posts_list_cache, now)
    /\ post_cache' = Expire(post_cache, now)
    /\ slug_map_cache' = Expire(slug_map_cache, now)
    /\ cache_op' = CacheOp("stats", "all", << >>, Absent,
                           Some([ posts_list_size |-> CacheLen(posts_list_cache, now),
                                  post_cache_size |-> CacheLen(post_cache, now),
                                  post_cache_max |-> MAX_INDIVIDUAL_POST_CACHE,
                                  slug_map_size |-> CacheLen(slug_map_cache, now),
                                  ttl_seconds |-> cache_ttl_seconds ]))
    /\ UNCHANGED <<now, limiterVars, apiVars, taskVars, cache_ttl_seconds>>

-----------------------------------------------------------------------------
(* The content directory (content_store.py) and GET /posts (main.py) *)

MaxOffset == 2
MaxBadFiles == 1

DEFAULT_PAGE_LIMIT == 20
MAX_PAGE_LIMIT == 100
STATUS_UNPROCESSABLE == 422
STATUS_UNAVAILABLE == 503
STATUS_BAD_REQUEST == 400
STATUS_NOT_FOUND == 404

\* A string that is compared is the sequence of its code points.  The dates
\* of the model are "10" and "9": as numbers 9 < 10, as strings "10" < "9".
Dates == { <<49, 48>>, <<57>> }

\* What the file <slug>.md is to the handlers: not there; a post with a date;
\* listed but gone when opened (FileNotFoundError); front matter or metadata
\* that is rejected (ValueError); unreadable (OSError, hence ContentError);
\* front matter whose tags are a number (TypeError from list()).
FileStates ==
    [ kind : {"post"}, date : Dates ] \cup
    [ kind : {"absent", "not_found", "invalid", "storage_error", "type_error"},
      date : { << >> } ]

NoFile == [ kind |-> "absent", date |-> << >> ]

\* The directory is there, is missing, or cannot be listed (OSError).
NoDirectory == [ dir |-> "missing", files |-> [ slug \in Slugs |-> NoFile ] ]

\* The directories of the model: at most MaxBadFiles files that fail to load.
Contents ==
    { c \in [ dir : {"ok", "missing", "unlistable"}, files : [ Slugs -> FileStates ] ] :
        /\ c.dir # "ok" => c.files = NoDirectory.files
        /\ Cardinality({ slug \in Slugs : c.files[slug].kind \notin {"post", "absent"} })
              <= MaxBadFiles }

\* The orders in which os.listdir may give the names.
ListingOrders ==
    { o \in [ 1..Cardinality(Slugs) -> Slugs ] : \A i, j \in DOMAIN o : o[i] = o[j] => i = j }

\* str.lower() over the characters of the names.
Lower(str) ==
    [ i \in 1..Len(str) |->
        CASE str[i] = "M" -> "m" [] str[i] = "D" -> "d" [] OTHER -> str[i] ]

\* str.endswith(suffix)
EndsWith(str, suffix) ==
    /\ Len(suffix) <= Len(str)
    /\ SubSeq(str, Len(str) - Len(suffix) + 1, Len(str)) = suffix

DotMd == <<".", "m", "d">>

\* The last place of character c in str, or 0.
LastIndex(str, c) ==
    LET places == { i \in 1..Len(str) : str[i] = c }
    IN  IF places = { } THEN 0 ELSE CHOOSE i \in places : \A j \in places : j <= i

\* filename.rsplit(".", 1)[0]
Stem(filename) ==
    LET dot == LastIndex(filename, ".")
    IN  IF dot = 0 THEN filename ELSE SubSeq(filename, 1, dot - 1)

\* <slug>.md
FileNameOf(slug) == slug \o DotMd

\* _list_local_slugs over the names os.listdir gives: no directory gives [],
\* a failing listdir raises ContentError, and otherwise the stems of the
\* names that end in .md in any case and match SLUG_PATTERN come in
\* listdir's order.
ListLocalSlugs(c, names) ==
    CASE c.dir = "missing" -> Returned(<< >>)
      [] c.dir = "unlistable" -> Raised("ContentError")
      [] c.dir = "ok" ->
            LET markdown == SelectSeq(names, LAMBDA name : EndsWith(Lower(name), DotMd))
                stems == [ i \in 1..Len(markdown) |-> Stem(markdown[i]) ]
            IN  Returned(SelectSeq(stems, SlugPatternMatch))

\* list_post_slugs, local mode.  A directory record either gives the names
\* of its files, or gives its files by slug: the file of a slug is then
\* <slug>.md, which ends in .md and has the slug for its stem, and the
\* slugs come in listdir's order.
list_post_slugs(c, order) ==
    IF "names" \in DOMAIN c THEN ListLocalSlugs(c, c.names)
    ELSE CASE c.dir = "missing" -> Returned(<< >>)
           [] c.dir = "unlistable" -> Raised("ContentError")
           [] c.dir = "ok" ->
                 Returned(SelectSeq(order, LAMBDA slug :
                              c.files[slug].kind # "absent" /\ SlugPatternMatch(slug)))

\* load_post_by_slug, parse_frontmatter and PostSummary(...) for one slug.
LoadSummary(c, slug) ==
    LET f == c.files[slug]
    IN  CASE validate_slug(slug).raised # Absent -> Raised("ValueError")
          [] PostMetaValidateSlug(slug).raised # Absent -> Raised("ValueError")
          [] f.kind = "post" -> Returned([ slug |-> slug, date |-> f.date ])
          [] f.kind \in {"absent", "not_found"} -> Raised("FileNotFoundError")
          [] f.kind = "invalid" -> Raised("ValueError")
          [] f.kind = "storage_error" -> Raised("ContentError")
          [] f.kind = "type_error" -> Raised("TypeError")

RECURSIVE MutBuildSummariesSkipAll(_, _, _)
MutBuildSummariesSkipAll(c, slugs, acc) ==
    IF slugs = << >> THEN Returned(acc)
    ELSE IF c.files[Head(slugs)].kind = "post"
         THEN MutBuildSummariesSkipAll(c, Tail(slugs),
                  Append(acc, [ slug |-> Head(slugs), date |-> c.files[Head(slugs)].date ]))
         ELSE MutBuildSummariesSkipAll(c, Tail(slugs), acc)

\* The loop of list_posts: a ValueError or FileNotFoundError skips the post,
\* any other exception leaves the loop and the handler.
RECURSIVE BuildSummaries(_, _, _)
BuildSummaries(c, slugs, acc) ==
    IF slugs = << >> THEN Returned(acc)
    ELSE LET l == LoadSummary(c, Head(slugs))
         IN  IF l.raised = Absent
             THEN BuildSummaries(c, Tail(slugs), Append(acc, l.value))
             ELSE IF l.raised[1] \in {"ValueError", "FileNotFoundError"}
                  THEN BuildSummaries(c, Tail(slugs), acc)
                  ELSE Raised(l.raised[1])

\* a < b for two strings
RECURSIVE StrLess(_, _)
StrLess(a, b) ==
    IF b = << >> THEN FALSE
    ELSE IF a = << >> THEN TRUE
    ELSE IF a[1] # b[1] THEN a[1] < b[1]
    ELSE StrLess(Tail(a), Tail(b))

\* x goes behind every summary whose date is not less than its own.
InsertByDate(sorted, x) ==
    LET k == Cardinality({ i \in 1..Len(sorted) : ~StrLess(sorted[i].date, x.date) })
    IN  SubSeq(sorted, 1, k) \o << x >> \o SubSeq(sorted, k + 1, Len(sorted))

\* all_summaries.sort(key=lambda s: s.date, reverse=True): stable, so equal
\* dates keep the order in which the posts were loaded.
MutSortNone(summaries) == summaries

RECURSIVE SortByDateReverse(_)
SortByDateReverse(summaries) ==
    IF summaries = << >> THEN << >>
    ELSE InsertByDate(SortByDateReverse(SubSeq(summaries, 1, Len(summaries) - 1)),
                      summaries[Len(summaries)])

\* An index of a Python slice, for a sequence of n elements.
SliceIndex(i, n) == IF i < 0 THEN Max(0, n + i) ELSE Min(i, n)

MutSliceInclusive(s, start, stop) ==
    SubSeq(s, SliceIndex(start, Len(s)) + 1, SliceIndex(stop + 1, Len(s)))

MutSliceFromStart(s, start, stop) == SubSeq(s, 1, SliceIndex(stop, Len(s)))

\* s[start : stop]
Slice(s, start, stop) ==
    SubSeq(s, SliceIndex(start, Len(s)) + 1, SliceIndex(stop, Len(s)))

\* generate_etag: the hash is a function of the string hashed, no more.
generate_etag(parts) == << "\"", "md5", parts, "\"" >>

MutAddCacheHeadersNoEtag(etag) ==
    [ k \in {"Cache-Control"} |-> <<"public, max-age=", cache_ttl_seconds>> ]

\* add_cache_headers: Cache-Control always, ETag when one is given.
add_cache_headers(etag) ==
    [ k \in {"Cache-Control"} \cup (IF etag # << >> THEN {"ETag"} ELSE {}) |->
        IF k = "ETag" THEN etag ELSE <<"public, max-age=", cache_ttl_seconds>> ]

\* The exception handlers of main.py.
StatusOfException(exc) ==
    CASE exc = "ValueError" -> STATUS_BAD_REQUEST
      [] exc = "ContentError" -> STATUS_UNAVAILABLE
      [] exc = "S3Error" -> STATUS_UNAVAILABLE
      [] OTHER -> STATUS_INTERNAL

\* What the exception handlers say in the body: the message of the exception
\* for a ValueError, a fixed text for the others.
ErrorContent(exc) ==
    CASE exc = "ValueError" ->
            [ detail |-> <<"str(exc)", exc>>, error_code |-> "VALIDATION_ERROR" ]
      [] exc = "ContentError" ->
            [ detail |-> <<"Content temporarily unavailable">>, error_code |-> "CONTENT_ERROR" ]
      [] exc = "S3Error" ->
            [ detail |-> <<"Storage service temporarily unavailable">>, error_code |-> "S3_ERROR" ]
      [] OTHER ->
            [ detail |-> <<"Internal server error">>, error_code |-> "INTERNAL_ERROR" ]

\* The queries of the model: limit and offset, each given or left out.
LimitChoices == {0, 2, MAX_PAGE_LIMIT, MAX_PAGE_LIMIT + 1}

Queries ==
    { [ limit |-> Absent, offset |-> Absent ] } \cup
    { q \in [ limit : { Some(n) : n \in LimitChoices },
              offset : { Some(n) : n \in -1..MaxOffset } ] :
        q.limit[1] \in {0, MAX_PAGE_LIMIT + 1} => q.offset[1] <= 0 }

\* Query(ge=1, le=MAX_PAGE_LIMIT) = DEFAULT_PAGE_LIMIT and Query(ge=0) = 0
LimitOf(query) == IF query.limit = Absent THEN DEFAULT_PAGE_LIMIT ELSE query.limit[1]

OffsetOf(query) == IF query.offset = Absent THEN 0 ELSE query.offset[1]

MutValidQueryNoUpper(query) == LimitOf(query) >= 1 /\ OffsetOf(query) >= 0

ValidQuery(query) ==
    /\ LimitOf(query) >= 1
    /\ LimitOf(query) <= MAX_PAGE_LIMIT
    /\ OffsetOf(query) >= 0

\* The number of times a handler went to storage: directory listings and
\* files opened.
NoStorage == [ lists |-> 0, loads |-> 0 ]

OneLoad == [ lists |-> 0, loads |-> 1 ]

\* The files the loop of list_posts opens: all of them, or those up to the
\* one whose exception ends the loop.
LoadsMade(c, slugs) ==
    LET ending == { i \in 1..Len(slugs) :
                      c.files[slugs[i]].kind \in {"storage_error", "type_error"} }
    IN  IF ending = { } THEN Len(slugs)
        ELSE CHOOSE i \in ending : \A j \in ending : i <= j

ApiResponse(query, ran, hit, listing, status, body, headers, storage) ==
    [ route |-> "/posts", query |-> query, limit |-> LimitOf(query),
      offset |-> OffsetOf(query), handler_ran |-> ran, cache_hit |-> hit,
      all_summaries |-> listing, status |-> status, body |-> body,
      headers |-> headers, storage |-> storage, error |-> Absent ]

\* The pagination and the response of list_posts.
Page(query, hit, all_summaries, storage) ==
    LET limit == LimitOf(query)
        offset == OffsetOf(query)
        total == Len(all_summaries)
        paginated == Slice(all_summaries, offset, offset + limit)
    IN  ApiResponse(query, TRUE, hit, Some(all_summaries), STATUS_OK,
                    Some([ posts |-> paginated, total |-> total,
                           limit |-> limit, offset |-> offset ]),
                    Some(add_cache_headers(generate_etag(<<total, offset, limit>>))),
                    storage)

Failure(query, ran, exc, storage) ==
    [ ApiResponse(query, ran, FALSE, Absent, StatusOfException(exc), Absent, Absent, storage)
        EXCEPT !.error = Some(ErrorContent(exc)) ]

\* The handler of GET /posts: the cached listing, or on a miss the listing
\* built from the directory, sorted and cached; then the page of it.
ListPosts(c, query, order, t) ==
    LET g == GetPostsListCached(posts_list_cache, t)
    IN  IF g.result # Absent
        THEN [ cache |-> g.cache, response |-> Page(query, TRUE, g.result[1], NoStorage) ]
        ELSE LET slugs == list_post_slugs(c, order)
                 built == BuildSummaries(c, slugs.value, << >>)
                 went == [ lists |-> 1,
                           loads |-> LoadsMade(c, slugs.value) ]
             IN  IF slugs.raised # Absent
                 THEN [ cache |-> g.cache,
                        response |-> Failure(query, TRUE, slugs.raised[1], went) ]
                 ELSE IF built.raised # Absent
                 THEN [ cache |-> g.cache,
                        response |-> Failure(query, TRUE, built.raised[1], went) ]
                 ELSE LET all_summaries == SortByDateReverse(built.value)
                      IN  [ cache |-> SetPostsListCached(g.cache, all_summaries, t),
                            response |-> Page(query, FALSE, all_summaries, went) ]

\* GET /posts: a query out of range is answered 422 before the handler.
list_posts(query, order) ==
    /\ IF ValidQuery(query)
       THEN LET h == ListPosts(content, query, order, now)
            IN  /\ posts_list_cache' = h.cache
                /\ api' = Some(h.response)
       ELSE /\ api' = Some(ApiResponse(query, FALSE, FALSE, Absent,
                                       STATUS_UNPROCESSABLE, Absent, Absent, NoStorage))
            /\ UNCHANGED posts_list_cache
    /\ UNCHANGED <<now, limiterVars, content, cache_ttl_seconds, post_cache,
                   slug_map_cache, cache_op, taskVars>>

\* The application as it starts, over a content directory.
ApiCreated(contents) ==
    /\ content \in contents
    /\ api = Absent
    /\ checked = Absent
    /\ tasks = << >>

\* POST /cache/clear: clear_all_caches(), and a message in answer.
cache_clear ==
    /\ posts_list_cache' = EmptyCache
    /\ post_cache' = EmptyCache
    /\ slug_map_cache' = EmptyCache
    /\ cache_op' = CacheOp("clear", "all", << >>, Absent, Absent)
    /\ api' = Some([ route |-> "/cache/clear", status |-> STATUS_OK ])
    /\ UNCHANGED <<now, limiterVars, content, cache_ttl_seconds, taskVars>>

-----------------------------------------------------------------------------
(* GET /post/{slug} (main.py) *)

\* The files of the single-post runs: a.md, and a file whose name is "a",
\* a newline and ".md".
StoredSlugs == { <<"a">>, <<"a", "\n">> }

PostContents ==
    { [ dir |-> "missing", files |-> [ slug \in StoredSlugs |-> NoFile ] ] } \cup
    { c \in [ dir : {"ok"}, files : [ StoredSlugs -> FileStates ] ] :
        c.files[<<"a", "\n">>].kind \in {"absent", "post"} }

\* The slugs requested: every string of up to two characters, and one that
\* is longer than the limit.
TooLongSlug == [ i \in 1..(MAX_SLUG_LENGTH + 1) |-> "a" ]

RequestSlugs == SeqsUpTo(SlugAlphabet, 2) \cup { TooLongSlug }

FileOf(c, slug) ==
    IF c.dir = "ok" /\ slug \in DOMAIN c.files THEN c.files[slug] ELSE NoFile

\* The text of a post file after its front matter.
MarkdownOf(slug, f) == << slug, f.date >>

\* load_post_by_slug, local mode: validate_slug, then the file is opened.
load_post_by_slug(c, slug) ==
    IF validate_slug(slug).raised # Absent THEN Raised("ValueError")
    ELSE LET f == FileOf(c, slug)
         IN  CASE f.kind \in {"absent", "not_found"} -> Raised("FileNotFoundError")
               [] f.kind = "storage_error" -> Raised("ContentError")
               [] OTHER -> Returned(f)

MutBuildDetailLenient(slug, f) ==
    Returned([ meta |-> [ slug |-> slug, date |-> f.date ], content |-> MarkdownOf(slug, f) ])

\* parse_frontmatter, PostMeta(...) and PostDetail(...) on what was loaded.
BuildDetail(slug, f) ==
    CASE f.kind = "invalid" -> Raised("ValueError")
      [] f.kind = "type_error" -> Raised("TypeError")
      [] OTHER -> Returned([ meta |-> [ slug |-> slug, date |-> f.date ],
                             content |-> MarkdownOf(slug, f) ])

PostResponse(slug, ran, hit, status, raised, body, headers, storage) ==
    [ route |-> "/post/{slug}", slug |-> slug, handler_ran |-> ran, cache_hit |-> hit,
      status |-> status, raised |-> raised, body |-> body, headers |-> headers,
      storage |-> storage, error |-> Absent ]

PostFailure(slug, exc, storage) ==
    [ PostResponse(slug, TRUE, FALSE, StatusOfException(exc), Some(exc), Absent, Absent, storage)
        EXCEPT !.error = Some(ErrorContent(exc)) ]

\* raise HTTPException(status_code, detail): the answer is the detail alone.
PostHttpException(slug, status, detail, storage) ==
    [ PostResponse(slug, TRUE, FALSE, status, Some("HTTPException"), Absent, Absent, storage)
        EXCEPT !.error = Some([ detail |-> detail ]) ]

MutPostFoundBySlug(slug, hit, detail, storage) ==
    PostResponse(slug, TRUE, hit, STATUS_OK, Absent, Some(detail),
                 Some(add_cache_headers(generate_etag(IF hit THEN slug ELSE detail.content))),
                 storage)

PostFound(slug, hit, detail, storage) ==
    PostResponse(slug, TRUE, hit, STATUS_OK, Absent, Some(detail),
                 Some(add_cache_headers(generate_etag(detail.content))),
                 storage)

\* The handler of GET /post/{slug}.
GetPost(c, slug, t) ==
    IF ~SlugPatternMatch(slug)
    THEN [ cache |-> post_cache,
           response |-> PostHttpException(slug, STATUS_BAD_REQUEST,
                                          "Invalid slug format", NoStorage) ]
    ELSE LET g == CacheGet(post_cache, slug, t)
             raw == load_post_by_slug(c, slug)
             built == BuildDetail(slug, raw.value)
             went == IF validate_slug(slug).raised = Absent THEN OneLoad ELSE NoStorage
         IN  IF g.result # Absent
             THEN [ cache |-> g.cache, response |-> PostFound(slug, TRUE, g.result[1], NoStorage) ]
             ELSE IF raw.raised = Some("FileNotFoundError")
             THEN [ cache |-> g.cache,
                    response |-> PostHttpException(slug, STATUS_NOT_FOUND,
                                                   "Post not found", went) ]
             ELSE IF raw.raised # Absent
             THEN [ cache |-> g.cache, response |-> PostFailure(slug, raw.raised[1], went) ]
             ELSE IF built.raised # Absent
             THEN [ cache |-> g.cache, response |-> PostFailure(slug, built.raised[1], went) ]
             ELSE [ cache |-> CacheSet(g.cache, slug, built.value, t, MAX_INDIVIDUAL_POST_CACHE),
                    response |-> PostFound(slug, FALSE, built.value, went) ]

\* GET /post/{slug}: a path that is no single segment matches no route (404),
\* a slug that fails the Path validation is answered 422; then the handler.
get_post(slug) ==
    /\ IF ~RouteMatches(slug)
       THEN /\ api' = Some(PostResponse(slug, FALSE, FALSE, STATUS_NOT_FOUND,
                                        Absent, Absent, Absent, NoStorage))
            /\ UNCHANGED post_cache
       ELSE IF ~PathValid(slug)
       THEN /\ api' = Some(PostResponse(slug, FALSE, FALSE, STATUS_UNPROCESSABLE,
                                        Absent, Absent, Absent, NoStorage))
            /\ UNCHANGED post_cache
       ELSE LET h == GetPost(content, slug, now)
            IN  /\ post_cache' = h.cache
                /\ api' = Some(h.response)
    /\ UNCHANGED <<now, limiterVars, content, cache_ttl_seconds, posts_list_cache,
                   slug_map_cache, cache_op, taskVars>>

-----------------------------------------------------------------------------
(* RateLimitMiddleware._get_client_ip *)

\* s.split(",")[0]
FirstField(s) ==
    LET commas == { i \in 1..Len(s) : s[i] = "," }
    IN  IF commas = {} THEN s
        ELSE SubSeq(s, 1, (CHOOSE i \in commas : \A j \in commas : i <= j) - 1)

\* s.strip()
Strip(s) ==
    LET solid == { i \in 1..Len(s) : s[i] # " " }
    IN  IF solid = {} THEN << >>
        ELSE SubSeq(s, CHOOSE i \in solid : \A j \in solid : i <= j,
                       CHOOSE i \in solid : \A j \in solid : i >= j)

\* Python truthiness of headers.get(...): absent and "" are both false.
Truthy(h) == h # Absent /\ h[1] # << >>

MutGetClientIpRealFirst(request) ==
    IF Truthy(request.real_ip) THEN request.real_ip[1]
    ELSE IF Truthy(request.xff) THEN Strip(FirstField(request.xff[1]))
    ELSE IF request.peer # Absent THEN request.peer[1]
    ELSE UNKNOWN

GetClientIp(request) ==
    IF Truthy(request.xff) THEN Strip(FirstField(request.xff[1]))
    ELSE IF Truthy(request.real_ip) THEN request.real_ip[1]
    ELSE IF request.peer # Absent THEN request.peer[1]
    ELSE UNKNOWN

-----------------------------------------------------------------------------
(* RateLimitMiddleware._is_rate_limited *)

NoHeaders == [ k \in {} |-> 0 ]

\* self.buckets is a defaultdict: reading a missing key yields an empty bucket.
MutBucketKeyShared(client_ip) == UNKNOWN

BucketKey(client_ip) == client_ip

BucketOf(bs, client_ip) ==
    IF BucketKey(client_ip) \in DOMAIN bs THEN bs[BucketKey(client_ip)] ELSE << >>

MutWithBucketOnly(bs, client_ip, reqs) == [ k \in {BucketKey(client_ip)} |-> reqs ]

\* ... and the read creates the key.
WithBucket(bs, client_ip, reqs) ==
    [ k \in DOMAIN bs \cup {BucketKey(client_ip)} |->
        IF k = BucketKey(client_ip) THEN reqs ELSE bs[k] ]

MutCleanOldKeepAll(reqs, t) == reqs

\* [t for t in bucket.requests if now - t < 3600]
CleanOld(reqs, t) == SelectSeq(reqs, LAMBDA x : t - x < HOUR)

MutCountLastMinuteNone(reqs, t) == 0

\* sum(1 for t in bucket.requests if t > minute_ago)
CountLastMinute(reqs, t) ==
    Cardinality({ i \in 1..Len(reqs) : reqs[i] > t - MINUTE })

RateLimitHeaders(last_minute, last_hour) ==
    [ k \in { "X-RateLimit-Limit-Minute", "X-RateLimit-Remaining-Minute",
              "X-RateLimit-Limit-Hour", "X-RateLimit-Remaining-Hour" } |->
        CASE k = "X-RateLimit-Limit-Minute" -> requests_per_minute
          [] k = "X-RateLimit-Remaining-Minute" -> Max(0, requests_per_minute - last_minute)
          [] k = "X-RateLimit-Limit-Hour" -> requests_per_hour
          [] OTHER -> Max(0, requests_per_hour - last_hour) ]

\* headers[name] = value
SetHeader(headers, name, value) ==
    [ k \in DOMAIN headers \cup {name} |-> IF k = name THEN value ELSE headers[k] ]

MutOverLimitHourFirst(last_minute, last_hour, headers) ==
    IF last_hour >= requests_per_hour
    THEN [ limited |-> TRUE, headers |-> SetHeader(headers, "Retry-After", RETRY_AFTER_HOUR) ]
    ELSE IF last_minute >= requests_per_minute
    THEN [ limited |-> TRUE, headers |-> SetHeader(headers, "Retry-After", RETRY_AFTER_MINUTE) ]
    ELSE [ limited |-> FALSE, headers |-> headers ]

MutOverLimitOffByOne(last_minute, last_hour, headers) ==
    IF last_minute > requests_per_minute
    THEN [ limited |-> TRUE, headers |-> SetHeader(headers, "Retry-After", RETRY_AFTER_MINUTE) ]
    ELSE IF last_hour >= requests_per_hour
    THEN [ limited |-> TRUE, headers |-> SetHeader(headers, "Retry-After", RETRY_AFTER_HOUR) ]
    ELSE [ limited |-> FALSE, headers |-> headers ]

\* The check of the two windows: the minute window first.
OverLimit(last_minute, last_hour, headers) ==
    IF last_minute >= requests_per_minute
    THEN [ limited |-> TRUE, headers |-> SetHeader(headers, "Retry-After", RETRY_AFTER_MINUTE) ]
    ELSE IF last_hour >= requests_per_hour
    THEN [ limited |-> TRUE, headers |-> SetHeader(headers, "Retry-After", RETRY_AFTER_HOUR) ]
    ELSE [ limited |-> FALSE, headers |-> headers ]

\* The whole check on bucket map bs at time t: the pruned bucket is stored
\* back, and the decision and headers are returned.
IsRateLimited(bs, client_ip, t) ==
    LET reqs == CleanOld(BucketOf(bs, client_ip), t)
        requests_last_minute == CountLastMinute(reqs, t)
        requests_last_hour == Len(reqs)
        verdict == OverLimit(requests_last_minute, requests_last_hour,
                             RateLimitHeaders(requests_last_minute, requests_last_hour))
    IN  [ buckets |-> WithBucket(bs, client_ip, reqs),
          is_limited |-> verdict.limited,
          headers |-> verdict.headers ]

-----------------------------------------------------------------------------
(* RateLimitMiddleware.dispatch *)

\* What call_next(request) does: the rest of the pipeline returns a response
\* (<<status>>), or an exception no handler below the middleware converts
\* propagates out of call_next (<< >>).
Outcomes == { Some(STATUS_OK), Absent }

\* The response the client gets when call_next raises: the application's
\* handler for Exception answers outside the middleware, so nothing the
\* middleware would have added is on it.
InternalError == [ status |-> STATUS_INTERNAL, headers |-> NoHeaders ]

MutSkipOnlyWhenDisabled(request) == ~enabled

\* if not self.enabled or request.url.path == "/health"
SkipsRateLimit(request) == ~enabled \/ request.path = HEALTH_PATH

\* response.headers[key] = value for every key of headers
AddHeaders(response, headers) ==
    [ response EXCEPT !.headers =
        [ k \in DOMAIN response.headers \cup DOMAIN headers |->
            IF k \in DOMAIN headers THEN headers[k] ELSE response.headers[k] ] ]

CallNext(out) ==
    IF out = Absent THEN InternalError
    ELSE [ status |-> out[1], headers |-> NoHeaders ]

MutRecordAlways(bs, client_ip, is_limited, t) ==
    WithBucket(bs, client_ip, Append(BucketOf(bs, client_ip), t))

MutRecordLost(bs, client_ip, is_limited, t) == bs

\* self.buckets[client_ip].requests.append(time.time()), on the allowed path only
Record(bs, client_ip, is_limited, t) ==
    IF is_limited THEN bs
    ELSE WithBucket(bs, client_ip, Append(BucketOf(bs, client_ip), t))

\* One request through dispatch on bucket map bs at time t, with what the
\* rest of the pipeline does (out).  Yields the new bucket map and the facts
\* of the dispatch: the request, whether the limiter was skipped, the
\* identity, the decision, the headers of the check and the response sent.
Dispatch(bs, request, t, out) ==
    IF SkipsRateLimit(request)
    THEN [ buckets |-> bs,
           rec |-> [ request |-> request, skipped |-> TRUE, client_ip |-> Absent,
                     is_limited |-> FALSE, headers |-> NoHeaders, at |-> t,
                     reached_next |-> TRUE, response |-> CallNext(out) ] ]
    ELSE LET client_ip == GetClientIp(request)
             chk == IsRateLimited(bs, client_ip, t)
             response ==
                 IF chk.is_limited
                 THEN AddHeaders([ status |-> STATUS_TOO_MANY, headers |-> NoHeaders ],
                                 chk.headers)
                 ELSE IF out = Absent THEN InternalError
                 ELSE AddHeaders(CallNext(out), chk.headers)
         IN  [ buckets |-> Record(chk.buckets, client_ip, chk.is_limited, t),
               rec |-> [ request |-> request, skipped |-> FALSE,
                         client_ip |-> Some(client_ip),
                         is_limited |-> chk.is_limited, headers |-> chk.headers,
                         at |-> t, reached_next |-> ~chk.is_limited,
                         response |-> response ] ]

-----------------------------------------------------------------------------
(* Actions of the limiter *)

NoBuckets == [ k \in {} |-> << >> ]

\* The middleware as constructed with the given limits.
LimiterCreated(per_minute, per_hour, enabling) ==
    /\ requests_per_minute \in per_minute
    /\ requests_per_hour \in per_hour
    /\ enabled \in enabling
    /\ buckets = NoBuckets
    /\ last = Absent
    /\ buckets2 = NoBuckets
    /\ seenY = Absent
    /\ seenY2 = Absent

InitLimiter ==
    /\ now = 0
    /\ LimiterCreated(0..MaxPerMinute, 0..MaxPerHour, BOOLEAN)
    /\ CachesCreated({DEFAULT_TTL})
    /\ ApiCreated({NoDirectory})

\* Time passes.
Tick ==
    /\ \E t \in TimePoints : t > now /\ now' = t
    /\ UNCHANGED <<limiterVars, cacheVars, apiVars, taskVars>>

\* A request arrives at the middleware.
DispatchStep(request, out) ==
    LET d == Dispatch(buckets, request, now, out)
    IN  /\ buckets' = d.buckets
        /\ last' = Some(d.rec)
        /\ UNCHANGED <<now, requests_per_minute, requests_per_hour, enabled,
                       buckets2, seenY, seenY2, cacheVars, apiVars, taskVars>>

NextLimiter ==
    \/ Tick
    \/ \E request \in LimiterRequests, out \in Outcomes : DispatchStep(request, out)

SpecLimiter == InitLimiter /\ [][NextLimiter]_vars

\* The limiter as the identity runs configure it: one request per window.
InitIdentity ==
    /\ now = 0
    /\ LimiterCreated({1}, {1}, {TRUE})
    /\ CachesCreated({DEFAULT_TTL})
    /\ ApiCreated({NoDirectory})

\* The identity runs admit MaxBuckets distinct identities.
IdentityStep(request) ==
    /\ \/ GetClientIp(request) \in DOMAIN buckets
       \/ Cardinality(DOMAIN buckets) < MaxBuckets
    /\ DispatchStep(request, Some(STATUS_OK))

NextIdentity == \E request \in IdentityRequests : IdentityStep(request)

SpecIdentity == InitIdentity /\ [][NextIdentity]_vars

-----------------------------------------------------------------------------
(* The two-history comparison: the same limiter run twice.  Requests of     *)
(* client IsoY reach both runs at the same times; the requests of every     *)
(* other client reach the first run only.  Any two histories with the same  *)
(* requests of IsoY each agree with the history holding those alone, and    *)
(* so with each other.                                                      *)

IsoY == UNKNOWN

Decision(rec) == [ is_limited |-> rec.is_limited, headers |-> rec.headers ]

IsoBoth(request, out) ==
    /\ GetClientIp(request) = IsoY
    /\ LET d1 == Dispatch(buckets, request, now, out)
           d2 == Dispatch(buckets2, request, now, out)
       IN  /\ buckets' = d1.buckets
           /\ buckets2' = d2.buckets
           /\ seenY' = Some(Decision(d1.rec))
           /\ seenY2' = Some(Decision(d2.rec))
    /\ UNCHANGED <<now, requests_per_minute, requests_per_hour, enabled, last, cacheVars, apiVars, taskVars>>

IsoFirst(request, out) ==
    /\ GetClientIp(request) # IsoY
    /\ buckets' = Dispatch(buckets, request, now, out).buckets
    /\ UNCHANGED <<now, requests_per_minute, requests_per_hour, enabled, last,
                   buckets2, seenY, seenY2, cacheVars, apiVars, taskVars>>

NextIsolation ==
    \/ Tick
    \/ \E request \in LimiterRequests, out \in Outcomes : IsoBoth(request, out)
    \/ \E request \in LimiterRequests, out \in Outcomes : IsoFirst(request, out)

SpecIsolation == InitLimiter /\ [][NextIsolation]_vars

-----------------------------------------------------------------------------
(* Properties of the limiter *)

\* The timestamps of reqs younger than `age` at time t.
Younger(reqs, t, age) == { i \in 1..Len(reqs) : t - reqs[i] < age }

\* What the last dispatch found in its client's bucket before it recorded
\* anything of its own: the allowed requests of the last minute and hour.
EarlierInMinute ==
    LET d == last[1]
    IN  Cardinality(Younger(buckets[d.client_ip[1]], d.at, MINUTE))
            - (IF d.is_limited THEN 0 ELSE 1)

EarlierInHour ==
    LET d == last[1]
    IN  Cardinality(Younger(buckets[d.client_ip[1]], d.at, HOUR))
            - (IF d.is_limited THEN 0 ELSE 1)

Limited(d) == d.is_limited /\ ~d.reached_next

DeniedWith(d, retry) ==
    /\ Limited(d)
    /\ d.response.status = STATUS_TOO_MANY
    /\ "Retry-After" \in DOMAIN d.response.headers
    /\ d.response.headers["Retry-After"] = retry

\* C3: a client with hourly budget left is allowed while fewer than
\* requests_per_minute of its requests lie in the last 60 seconds, and the
\* request that finds requests_per_minute of them there is answered 429
\* with Retry-After 60.
C3_MinuteWindow ==
    (last # Absent /\ ~last[1].skipped) =>
        /\ (EarlierInMinute < requests_per_minute /\ EarlierInHour < requests_per_hour)
              => (~last[1].is_limited /\ last[1].reached_next)
        /\ EarlierInMinute >= requests_per_minute
              => DeniedWith(last[1], RETRY_AFTER_MINUTE)

C3_Witness ==
    /\ last # Absent /\ ~last[1].skipped
    /\ requests_per_minute >= 1
    /\ EarlierInMinute = requests_per_minute
    /\ EarlierInHour < requests_per_hour
    /\ last[1].response.status = STATUS_TOO_MANY

\* C4: the decision is: denied with Retry-After 60 when the minute count has
\* reached its limit (whatever the hour count); else denied with Retry-After
\* 3600 when the hour count has reached its limit; else allowed.  Denied if
\* and only if one of the counts has reached its limit.
C4_Decision ==
    (last # Absent /\ ~last[1].skipped) =>
        /\ IF EarlierInMinute >= requests_per_minute
           THEN DeniedWith(last[1], RETRY_AFTER_MINUTE)
           ELSE IF EarlierInHour >= requests_per_hour
           THEN DeniedWith(last[1], RETRY_AFTER_HOUR)
           ELSE /\ ~last[1].is_limited
                /\ "Retry-After" \notin DOMAIN last[1].response.headers
                /\ last[1].response.status # STATUS_TOO_MANY
        /\ last[1].is_limited <=>
              (EarlierInMinute >= requests_per_minute \/ EarlierInHour >= requests_per_hour)

C4_Witness ==
    /\ last # Absent /\ ~last[1].skipped
    /\ requests_per_minute >= 1
    /\ EarlierInMinute >= requests_per_minute
    /\ EarlierInHour >= requests_per_hour
    /\ DeniedWith(last[1], RETRY_AFTER_MINUTE)

\* C5: the decisions and remaining-quota values returned to client IsoY are
\* the same in two runs that differ only in the requests of other clients.
C5_Isolation == seenY = seenY2

C5_Witness ==
    /\ seenY # Absent /\ seenY[1].is_limited
    /\ \E k \in DOMAIN buckets : k # IsoY /\ Len(buckets[k]) >= 1
    /\ \A k \in DOMAIN buckets2 : k = IsoY

\* The step is a dispatch (time stands still during one).
IsDispatch == now' = now /\ last' # Absent

BucketBefore(client_ip) ==
    IF client_ip \in DOMAIN buckets THEN buckets[client_ip] ELSE << >>

StillFresh(reqs, t) ==
    LET keep == Younger(reqs, t, HOUR)
    IN  SelectSeq(reqs, LAMBDA x : \E i \in keep : reqs[i] = x)

\* C6: a denied request leaves its client's bucket as it was but for the
\* timestamps older than one hour; a bucket gains a timestamp only from a
\* request that was allowed and went on to the rest of the pipeline.
C6_DeniedAppendsNothing ==
    [][ (IsDispatch /\ ~last'[1].skipped) =>
          LET d == last'[1]
              c == d.client_ip[1]
              kept == StillFresh(BucketBefore(c), now)
          IN  /\ Limited(d) => buckets'[c] = kept
              /\ buckets'[c] # kept =>
                    /\ ~d.is_limited /\ d.reached_next
                    /\ buckets'[c] = Append(kept, now) ]_vars

C6_Witness ==
    /\ last # Absent /\ ~last[1].skipped
    /\ Limited(last[1])
    /\ Len(buckets[last[1].client_ip[1]]) >= 1

\* C7: every response to a request the limiter did not skip carries the four
\* X-RateLimit headers, the remaining values being max(0, limit - count) for
\* the counts of the check; a denial also carries 429 and Retry-After.
C7_HeadersOnEveryResponse ==
    (last # Absent /\ ~last[1].skipped) =>
        LET h == last[1].response.headers
        IN  /\ { "X-RateLimit-Limit-Minute", "X-RateLimit-Remaining-Minute",
                 "X-RateLimit-Limit-Hour", "X-RateLimit-Remaining-Hour" } \subseteq DOMAIN h
            /\ h["X-RateLimit-Limit-Minute"] = requests_per_minute
            /\ h["X-RateLimit-Limit-Hour"] = requests_per_hour
            /\ h["X-RateLimit-Remaining-Minute"] = Max(0, requests_per_minute - EarlierInMinute)
            /\ h["X-RateLimit-Remaining-Hour"] = Max(0, requests_per_hour - EarlierInHour)
            /\ last[1].is_limited =>
                  (last[1].response.status = STATUS_TOO_MANY /\ "Retry-After" \in DOMAIN h)

\* C8: a request to /health, and any request while the limiter is disabled,
\* is never answered 429 by the limiter, reaches the rest of the pipeline,
\* and leaves every bucket, and the set of buckets, as it was.
C8_Bypass ==
    [][ (IsDispatch /\ (last'[1].request.path = HEALTH_PATH \/ ~enabled)) =>
          /\ buckets' = buckets
          /\ last'[1].reached_next
          /\ last'[1].response.status # STATUS_TOO_MANY ]_vars

C8_Witness ==
    /\ last # Absent /\ enabled
    /\ last[1].request.path = HEALTH_PATH
    /\ requests_per_minute >= 1
    /\ LET c == GetClientIp(last[1].request)
       IN  /\ c \in DOMAIN buckets
           /\ Cardinality(Younger(buckets[c], now, MINUTE)) >= requests_per_minute
    /\ last[1].response.status = STATUS_OK

\* The counts a check of bucket reqs at time t decides on, taken from the
\* bucket as the check finds it: the timestamps of the last hour, and those
\* of them that lie in the last minute.
HourCount(reqs, t) == Cardinality(Younger(reqs, t, HOUR))

MinuteCount(reqs, t) ==
    Cardinality({ i \in Younger(reqs, t, HOUR) : reqs[i] > t - MINUTE })

\* C27: every check, allowed or denied, prunes the timestamps older than one
\* hour from the client's bucket before it counts: hourCount is the number
\* of those that remain and minuteCount the number of them within the last
\* minute, so minuteCount <= hourCount, the decision and the remaining
\* quotas follow from these two counts alone, and the bucket the check
\* leaves holds no timestamp older than one hour.
C27_PruneBeforeCount ==
    [][ (IsDispatch /\ ~last'[1].skipped) =>
          LET d == last'[1]
              c == d.client_ip[1]
              hourCount == HourCount(BucketBefore(c), now)
              minuteCount == MinuteCount(BucketBefore(c), now)
          IN  /\ minuteCount <= hourCount
              /\ d.is_limited <=>
                    (minuteCount >= requests_per_minute \/ hourCount >= requests_per_hour)
              /\ d.headers["X-RateLimit-Remaining-Minute"] =
                    Max(0, requests_per_minute - minuteCount)
              /\ d.headers["X-RateLimit-Remaining-Hour"] =
                    Max(0, requests_per_hour - hourCount)
              /\ \A i \in 1..Len(buckets'[c]) : now - buckets'[c][i] < HOUR
              /\ Len(buckets'[c]) = hourCount + (IF d.is_limited THEN 0 ELSE 1) ]_vars

\* A denied check one hour on: the minute window is full and the hour
\* window is not, one timestamp being left in the bucket.
C27_Witness ==
    /\ last # Absent /\ ~last[1].skipped
    /\ last[1].is_limited
    /\ last[1].at >= HOUR
    /\ requests_per_hour = MaxPerHour
    /\ last[1].headers["X-RateLimit-Remaining-Hour"] = requests_per_hour - 1
    /\ buckets[last[1].client_ip[1]] = << HOUR - 1 >>

NonDecreasing(reqs) == \A i, j \in 1..Len(reqs) : i <= j => reqs[i] <= reqs[j]

\* The dispatch of the step went through the limiter for identity k.
CheckedFor(k) ==
    /\ IsDispatch /\ ~last'[1].skipped
    /\ last'[1].client_ip = Some(k)
    /\ k = GetClientIp(last'[1].request)

\* C28: there is one bucket per client identity, created by the first
\* request of that identity the limiter does not skip, and the set of
\* bucket identities only grows.  A bucket's timestamps change only in a
\* check for its identity: those older than one hour go, and the time of the
\* request is appended at the end when the request is allowed; they stay in
\* non-decreasing order.
C28_BucketsOnlyGrow ==
    [][ /\ DOMAIN buckets \subseteq DOMAIN buckets'
        /\ \A k \in DOMAIN buckets' \ DOMAIN buckets : CheckedFor(k)
        /\ (IsDispatch /\ ~last'[1].skipped) => last'[1].client_ip[1] \in DOMAIN buckets'
        /\ \A k \in DOMAIN buckets :
              buckets'[k] # buckets[k] =>
                 /\ CheckedFor(k)
                 /\ \/ buckets'[k] = StillFresh(buckets[k], now)
                    \/ /\ buckets'[k] = Append(StillFresh(buckets[k], now), now)
                       /\ ~last'[1].is_limited /\ last'[1].reached_next
        /\ \A k \in DOMAIN buckets' : NonDecreasing(buckets'[k]) ]_vars

\* Two identities have a bucket: one has just been pruned of nothing and
\* appended to and holds two timestamps in order; the other, not checked
\* since, still holds a timestamp older than one hour.
C28_Witness ==
    /\ Cardinality(DOMAIN buckets) = 2
    /\ last # Absent /\ ~last[1].skipped /\ ~last[1].is_limited /\ last[1].at = now
    /\ LET c == last[1].client_ip[1]
       IN  /\ Len(buckets[c]) = 2
           /\ buckets[c][1] < buckets[c][2]
           /\ buckets[c][2] = now
           /\ \E k \in DOMAIN buckets \ {c} :
                 Len(buckets[k]) = 1 /\ now - buckets[k][1] >= HOUR

\* The timestamps of reqs in the 60 seconds that end with reqs[i]: those
\* after reqs[i] - 60, up to reqs[i].
InSpanEndingAt(reqs, i) ==
    { j \in 1..Len(reqs) : reqs[i] - MINUTE < reqs[j] /\ reqs[j] <= reqs[i] }

\* C32: in every reachable state every bucket holds at most
\* requests_per_hour timestamps, and at most requests_per_minute of them
\* lie within any span of 60 seconds (a span open at its start, as the
\* window of the check is: the span that ends with one of the timestamps
\* holds the most).
C32_BucketsBounded ==
    \A k \in DOMAIN buckets :
        /\ Len(buckets[k]) <= requests_per_hour
        /\ \A i \in 1..Len(buckets[k]) :
              Cardinality(InSpanEndingAt(buckets[k], i)) <= requests_per_minute

\* A bucket filled to the hourly limit by requests exactly one minute apart.
C32_Witness ==
    /\ requests_per_minute = MaxPerMinute
    /\ requests_per_hour = MaxPerHour
    /\ \E k \in DOMAIN buckets :
          /\ Len(buckets[k]) = requests_per_hour
          /\ \E i \in 2..Len(buckets[k]) : buckets[k][i] - buckets[k][i - 1] = MINUTE
    /\ last # Absent /\ ~last[1].skipped /\ ~last[1].is_limited

\* The dispatch of the step is the first request of a client since that
\* client was denied, and comes when the Retry-After of the denial has
\* passed.
RetriesAfterWait ==
    /\ IsDispatch /\ ~last'[1].skipped
    /\ last # Absent /\ ~last[1].skipped
    /\ Limited(last[1])
    /\ last'[1].client_ip = last[1].client_ip
    /\ now >= last[1].at + last[1].response.headers["Retry-After"]

\* C33: Retry-After is sufficient: with limits of at least 1, a client that
\* is denied at time t with Retry-After r and sends nothing until t + r is
\* allowed at its next request at or after t + r.
C33_RetryAfterSufficient ==
    [][ (RetriesAfterWait /\ requests_per_minute >= 1 /\ requests_per_hour >= 1) =>
            ~last'[1].is_limited ]_vars

\* The identity of a request as C9 (amended) states it.
TrimmedFirstValue(v) ==
    LET upto == IF \E i \in 1..Len(v) : v[i] = ","
                THEN (CHOOSE i \in 1..Len(v) : v[i] = "," /\ \A j \in 1..(i - 1) : v[j] # ",") - 1
                ELSE Len(v)
        lead == Cardinality({ i \in 1..upto : \A j \in 1..i : v[j] = " " })
        trail == Cardinality({ i \in 1..upto : \A j \in i..upto : v[j] = " " })
    IN  IF lead = upto THEN << >> ELSE SubSeq(v, lead + 1, upto - trail)

NonEmpty(h) == Len(h) = 1 /\ Len(h[1]) > 0

StatedIdentity(request) ==
    CASE NonEmpty(request.xff) -> TrimmedFirstValue(request.xff[1])
      [] ~NonEmpty(request.xff) /\ NonEmpty(request.real_ip) -> request.real_ip[1]
      [] ~NonEmpty(request.xff) /\ ~NonEmpty(request.real_ip) /\ Len(request.peer) = 1
            -> request.peer[1]
      [] OTHER -> UNKNOWN

\* C9 (amended): the identity is the trimmed first comma-separated value of
\* the forwarded-client header when that header is present and not empty;
\* else the real-IP header when present and not empty; else the peer
\* address; else "unknown".  A request uses the bucket keyed by its identity
\* and no other, so requests of one identity (all "unknown" ones too) share
\* one bucket.
C9_Identity ==
    [][ IsDispatch =>
          LET d == last'[1]
              id == StatedIdentity(d.request)
          IN  /\ d.client_ip = Some(id)
              /\ id \in DOMAIN buckets'
              /\ d.is_limited <=> Len(BucketBefore(id)) >= requests_per_minute
              /\ \A k \in DOMAIN buckets' \ {id} :
                    k \in DOMAIN buckets /\ buckets'[k] = buckets[k] ]_vars

C9_Witness ==
    /\ last # Absent
    /\ last[1].request.xff = Some(<< >>)
    /\ last[1].request.real_ip = Absent
    /\ last[1].request.peer = Absent
    /\ last[1].client_ip = Some(UNKNOWN)
    /\ last[1].is_limited

\* C9 as stated: whenever the forwarded-client header is present, the
\* identity is its first comma-separated value.
C9_AsStated ==
    (last # Absent /\ last[1].request.xff # Absent) =>
        last[1].client_ip = Some(TrimmedFirstValue(last[1].request.xff[1]))

-----------------------------------------------------------------------------
(* The caches under any sequence of calls of the cache.py functions *)

\* The instants of the cache runs: the whole minutes, and the second before
\* each, so that both sides of the ttl (59 s / 60 s) occur.
CacheTimePoints ==
    { t \in { k * MINUTE - s : k \in 0..MaxCacheMinutes, s \in {0, 1} } : t >= 0 }

CacheTick ==
    /\ \E t \in CacheTimePoints : t > now /\ now' = t
    /\ UNCHANGED <<limiterVars, cacheVars, apiVars, taskVars>>

\* The limiter as main.py configures it; the cache runs send it nothing.
InitCache ==
    /\ now = 0
    /\ LimiterCreated({PER_MINUTE}, {PER_HOUR}, {TRUE})
    /\ CachesCreated(TtlChoices)
    /\ ApiCreated({NoDirectory})

NextCache ==
    \/ CacheTick
    \/ get_posts_list_cached
    \/ \E value \in ListValues : set_posts_list_cached(value)
    \/ \E slug \in Slugs : get_post_cached(slug)
    \/ \E slug \in Slugs, value \in PostValues : set_post_cached(slug, value)
    \/ get_slug_map_cached
    \/ \E value \in MapValues : set_slug_map_cached(value)
    \/ clear_all_caches
    \/ get_cache_stats

SpecCache == InitCache /\ [][NextCache]_vars

-----------------------------------------------------------------------------
(* Properties of the caches *)

TheCache(name) ==
    CASE name = "posts_list" -> posts_list_cache
      [] name = "post" -> post_cache
      [] name = "slug_map" -> slug_map_cache

CapacityOf(name) ==
    CASE name = "posts_list" -> POSTS_LIST_CACHE_SIZE
      [] name = "post" -> MAX_INDIVIDUAL_POST_CACHE
      [] name = "slug_map" -> SLUG_MAP_CACHE_SIZE

CacheNames == {"posts_list", "post", "slug_map"}

CacheKeys == Slugs \cup {POSTS_LIST_KEY, SLUG_MAP_KEY}

KeysOf(c) == { c[i].key : i \in 1..Len(c) }

\* The keys of the entries of c that time t has not expired.
LiveKeys(c, t) == { c[i].key : i \in { j \in 1..Len(c) : t < c[j].expires } }

\* The step is a call of a cache.py function (time stands still during one).
CacheStep == now' = now /\ cache_op' # Absent

IsOp(o, op, cache, key) == o # Absent /\ o[1].op = op /\ o[1].cache = cache /\ o[1].key = key

\* An entry is written by set alone, with the value given and expiry
\* now + ttl; every other step leaves it as it is or removes it.
WrittenBySetOnly ==
    \A name \in CacheNames, key \in CacheKeys :
        IF CacheStep /\ IsOp(cache_op', "set", name, key)
        THEN /\ HasKey(TheCache(name)', key)
             /\ EntryOf(TheCache(name)', key) =
                   [ key |-> key, value |-> cache_op'[1].value[1],
                     expires |-> now + cache_ttl_seconds ]
        ELSE HasKey(TheCache(name)', key) =>
                /\ HasKey(TheCache(name), key)
                /\ EntryOf(TheCache(name)', key) = EntryOf(TheCache(name), key)

\* What a get returns: the value of the entry of its key when the entry's
\* expiry lies ahead, and nothing otherwise.
GetReturnsUnexpired ==
    \A name \in CacheNames, key \in CacheKeys :
        (CacheStep /\ IsOp(cache_op', "get", name, key)) =>
            LET c == TheCache(name)
            IN  IF HasKey(c, key) /\ now < EntryOf(c, key).expires
                THEN cache_op'[1].result = Some(EntryOf(c, key).value)
                ELSE cache_op'[1].result = Absent

\* A get(k) that directly follows set(k, v), no time having passed.
GetRightAfterSet(name, key) ==
    /\ CacheStep
    /\ IsOp(cache_op, "set", name, key)
    /\ IsOp(cache_op', "get", name, key)
    /\ HasKey(TheCache(name), key)
    /\ EntryOf(TheCache(name), key).expires = now + cache_ttl_seconds

\* C1 (amended): with ttl > 0, get(k) right after set(k, v) returns v.  For
\* any ttl, an entry's expiry is the time of the most recent set of its key
\* plus ttl, and a get returns the entry's value exactly while that expiry
\* lies ahead: once ttl has elapsed since the most recent set the get
\* returns absent, and no read returns an entry whose expiry has passed.
C1_TtlCorrect ==
    [][ /\ WrittenBySetOnly
        /\ GetReturnsUnexpired
        /\ \A name \in CacheNames, key \in CacheKeys :
              (GetRightAfterSet(name, key) /\ cache_ttl_seconds > 0) =>
                  cache_op'[1].result = cache_op[1].value ]_vars

C1_Witness ==
    /\ cache_ttl_seconds > 0
    /\ now >= cache_ttl_seconds
    /\ IsOp(cache_op, "get", "post", <<"a">>)
    /\ cache_op[1].result = Absent
    /\ HasKey(post_cache, <<"a">>)
    /\ EntryOf(post_cache, <<"a">>).expires = now

\* C1 as stated: get(k) right after set(k, v) returns v, whatever the ttl.
C1_AsStated ==
    [][ \A name \in CacheNames, key \in CacheKeys :
            GetRightAfterSet(name, key) => cache_op'[1].result = cache_op[1].value ]_vars

\* C2: every cache holds at most its capacity of entries, one per key; a set
\* of a new key into a cache whose size (as len() reports it: the unexpired
\* entries) equals its capacity removes exactly one of them and leaves the
\* size equal to the capacity.
C2_Capacity ==
    [][ \A name \in CacheNames :
          /\ Len(TheCache(name)') <= CapacityOf(name)
          /\ Cardinality(KeysOf(TheCache(name)')) = Len(TheCache(name)')
          /\ \A key \in CacheKeys :
                ( /\ CacheStep /\ IsOp(cache_op', "set", name, key)
                  /\ key \notin LiveKeys(TheCache(name), now)
                  /\ Cardinality(LiveKeys(TheCache(name), now)) = CapacityOf(name) ) =>
                    /\ Len(TheCache(name)') = CapacityOf(name)
                    /\ key \in KeysOf(TheCache(name)')
                    /\ KeysOf(TheCache(name)') \ {key} \subseteq LiveKeys(TheCache(name), now)
                    /\ Cardinality(LiveKeys(TheCache(name), now) \ KeysOf(TheCache(name)')) = 1
      ]_vars

C2_Witness ==
    /\ \E key \in Slugs : IsOp(cache_op, "set", "post", key)
    /\ Len(post_cache) = MAX_INDIVIDUAL_POST_CACHE
    /\ post_cache[Len(post_cache)].key = cache_op[1].key
    /\ cache_ttl_seconds > 0
    /\ \A i \in 1..Len(post_cache) :
          /\ post_cache[i].expires = now + cache_ttl_seconds
          /\ post_cache[i].value \in PostValues

\* The entries of c as a set: what is stored, whatever the order of use.
EntriesOf(c) == { c[i] : i \in 1..Len(c) }

\* The key popitem() would take from c at time t: the least recently used of
\* the unexpired entries.
LeastRecentlyUsed(c, t) ==
    IF Expire(c, t) = << >> THEN Absent ELSE Some(Expire(c, t)[1].key)

\* A get of a key whose entry is present and unexpired.
GetOfLive(name, key) ==
    /\ CacheStep /\ IsOp(cache_op', "get", name, key)
    /\ key \in LiveKeys(TheCache(name), now)

\* A set of a key whose entry is present and unexpired.
SetOfLive(name, key) ==
    /\ CacheStep /\ IsOp(cache_op', "set", name, key)
    /\ key \in LiveKeys(TheCache(name), now)

\* set(key, value) on a present key: the entry is overwritten with expiry
\* now + ttl, the size stays, and every other unexpired entry stays as it is.
OverwriteInPlace(name, key) ==
    LET c == TheCache(name)
    IN  /\ EntryOf(c', key) = [ key |-> key, value |-> cache_op'[1].value[1],
                                expires |-> now + cache_ttl_seconds ]
        /\ CacheLen(c', now) = CacheLen(c, now)
        /\ \A other \in LiveKeys(c, now) \ {key} :
              HasKey(c', other) /\ EntryOf(c', other) = EntryOf(c, other)

\* C26 (amended): get(key) on a present, unexpired entry changes neither a
\* stored value nor an expiry, so an entry expires ttl after its last set
\* however often it is read; it does make the entry the most recently used
\* one.  set(key, value) on a present key overwrites the entry with expiry
\* now + ttl, leaves the size unchanged and evicts no other entry, even at
\* capacity.
C26_GetKeepsEntries ==
    [][ \A name \in CacheNames, key \in CacheKeys :
          /\ GetOfLive(name, key) =>
                /\ EntriesOf(TheCache(name)') = EntriesOf(TheCache(name))
                /\ Len(TheCache(name)') = Len(TheCache(name))
                /\ TheCache(name)'[Len(TheCache(name)')].key = key
          /\ SetOfLive(name, key) => OverwriteInPlace(name, key) ]_vars

\* Both cases: a read of the older of two entries of the full post cache,
\* and an overwrite of the older one.
C26_Witness ==
    /\ Len(post_cache) = MAX_INDIVIDUAL_POST_CACHE
    /\ \A i \in 1..Len(post_cache) : now < post_cache[i].expires
    /\ post_cache[1].expires > post_cache[2].expires
    /\ \/ IsOp(cache_op, "get", "post", post_cache[2].key) /\ cache_op[1].result # Absent
       \/ IsOp(cache_op, "set", "post", post_cache[2].key)

\* C26 as stated: the get has no observable side effect at all, so the entry
\* the next insertion into a full cache evicts is the same after it.
C26_AsStated ==
    [][ \A name \in CacheNames, key \in CacheKeys :
          /\ GetOfLive(name, key) =>
                /\ EntriesOf(TheCache(name)') = EntriesOf(TheCache(name))
                /\ LeastRecentlyUsed(TheCache(name)', now) =
                      LeastRecentlyUsed(TheCache(name), now)
          /\ SetOfLive(name, key) => OverwriteInPlace(name, key) ]_vars

-----------------------------------------------------------------------------
(* GET /posts over any content directory *)

InitApi ==
    /\ now = 0
    /\ LimiterCreated({PER_MINUTE}, {PER_HOUR}, {TRUE})
    /\ CachesCreated({MINUTE})
    /\ ApiCreated(Contents)

\* os.listdir runs only when a valid request misses the cache; for any other
\* request its order plays no part, and one order stands for all.
AnyOrder == CHOOSE order \in ListingOrders : TRUE

ListdirOrders(query) ==
    IF ValidQuery(query) /\ GetPostsListCached(posts_list_cache, now).result = Absent
    THEN ListingOrders
    ELSE { AnyOrder }

\* Time passes between two requests: less than the ttl, or the ttl.
ApiTick ==
    /\ \E t \in {MINUTE - 1, MINUTE} : t > now /\ now' = t
    /\ UNCHANGED <<limiterVars, cacheVars, apiVars, taskVars>>

NextApi ==
    \/ ApiTick
    \/ \E query \in Queries : \E order \in ListdirOrders(query) : list_posts(query, order)
    \/ cache_clear

SpecApi == InitApi /\ [][NextApi]_vars

NonIncreasingByDate(listing) ==
    \A i, j \in 1..Len(listing) : i < j => ~StrLess(listing[i].date, listing[j].date)

\* C10: a successful GET /posts had limit in 1..100 and offset >= 0; its page
\* has at most limit posts and is the listing's elements offset+1 ..
\* offset+limit (as far as the listing goes); total is the length of the
\* whole listing; offset >= total gives an empty page.  The listing is the
\* sorted one, the one a live cache entry holds.
C10_Pagination ==
    (api # Absent /\ api[1].route = "/posts" /\ api[1].status = STATUS_OK) =>
        LET r == api[1]
            all == r.all_summaries[1]
            page == r.body[1]
        IN  /\ r.limit \in 1..MAX_PAGE_LIMIT /\ r.offset >= 0
            /\ Len(page.posts) <= r.limit
            /\ Len(page.posts) = Max(0, Min(r.limit, Len(all) - r.offset))
            /\ \A i \in 1..Len(page.posts) : page.posts[i] = all[r.offset + i]
            /\ page.total = Len(all)
            /\ page.limit = r.limit /\ page.offset = r.offset
            /\ r.offset >= page.total => page.posts = << >>
            /\ NonIncreasingByDate(all)
            /\ Contains(posts_list_cache, POSTS_LIST_KEY, now) =>
                  EntryOf(posts_list_cache, POSTS_LIST_KEY).value = all

\* A page cut short by the end of the listing, served from the cache.
C10_Witness ==
    /\ api # Absent
    /\ api[1].route = "/posts"
    /\ api[1].status = STATUS_OK
    /\ api[1].cache_hit
    /\ api[1].limit = 2
    /\ api[1].offset = 2
    /\ api[1].body[1].total = 3
    /\ Len(api[1].body[1].posts) = 1

\* C11: the whole listing, as a 200 response of GET /posts used it and as the
\* posts-list cache stores it, is non-increasing by date under string
\* comparison, and so is every page returned.
C11_SortedListing ==
    /\ \A i \in 1..Len(posts_list_cache) : NonIncreasingByDate(posts_list_cache[i].value)
    /\ (api # Absent /\ api[1].route = "/posts" /\ api[1].status = STATUS_OK) =>
          /\ NonIncreasingByDate(api[1].all_summaries[1])
          /\ NonIncreasingByDate(api[1].body[1].posts)

\* A listing built on a miss with both dates: "9" comes before "10".
C11_Witness ==
    /\ api # Absent
    /\ api[1].route = "/posts"
    /\ api[1].status = STATUS_OK
    /\ ~api[1].cache_hit
    /\ Len(api[1].all_summaries[1]) = 3
    /\ api[1].all_summaries[1][1].date = <<57>>
    /\ api[1].all_summaries[1][3].date = <<49, 48>>
    /\ HasKey(posts_list_cache, POSTS_LIST_KEY)
    /\ EntryOf(posts_list_cache, POSTS_LIST_KEY).value = api[1].all_summaries[1]

-----------------------------------------------------------------------------
(* The slug validators over every string *)

InitSlug ==
    /\ now = 0
    /\ LimiterCreated({PER_MINUTE}, {PER_HOUR}, {TRUE})
    /\ CachesCreated({DEFAULT_TTL})
    /\ ApiCreated({NoDirectory})

NextSlug == \E slug \in SlugStrings : CheckSlug(slug)

SpecSlug == InitSlug /\ [][NextSlug]_vars

\* Non-empty, at most MAX_SLUG_LENGTH characters, all of them in the class.
WellFormedSlug(s) == s # << >> /\ Len(s) <= MAX_SLUG_LENGTH /\ AllInClass(s)

\* C13: validate_slug accepts a string, returning it unchanged, exactly when
\* it is non-empty, within the length limit and made of [A-Za-z0-9_-] only;
\* the PostMeta validator and the single-post handler accept the same set.
C13_SlugAcceptance ==
    checked # Absent =>
        LET c == checked[1]
        IN  /\ c.validate_slug.raised = Absent <=> WellFormedSlug(c.slug)
            /\ c.validate_slug.raised = Absent => c.validate_slug.value = c.slug
            /\ c.validate_slug.raised # Absent => c.validate_slug.raised = Some("ValueError")
            /\ c.post_meta.raised = Absent <=> WellFormedSlug(c.slug)
            /\ c.handler <=> WellFormedSlug(c.slug)

-----------------------------------------------------------------------------
(* GET /post/{slug} over any content and any slug *)

InitPost ==
    /\ now = 0
    /\ LimiterCreated({PER_MINUTE}, {PER_HOUR}, {TRUE})
    /\ CachesCreated({MINUTE})
    /\ ApiCreated(PostContents)

NextPost ==
    \/ CacheTick
    \/ \E slug \in RequestSlugs : get_post(slug)
    \/ cache_clear

SpecPost == InitPost /\ [][NextPost]_vars

\* The step is a request to GET /post/{slug}.
IsGetPost == now' = now /\ api' # Absent /\ api'[1].route = "/post/{slug}"

\* The slug contains '/', '..' or a space, or is longer than the limit.
RejectedShape(slug) ==
    \/ \E i \in 1..Len(slug) : slug[i] \in {"/", " "}
    \/ \E i \in 1..(Len(slug) - 1) : slug[i] = "." /\ slug[i + 1] = "."
    \/ Len(slug) > MAX_SLUG_LENGTH

\* C12: a single-post fetch whose slug contains '/', '..', a space or is too
\* long is answered with an error, without any storage access and with no
\* cache written.
C12_RejectedBeforeStorage ==
    [][ (IsGetPost /\ RejectedShape(api'[1].slug)) =>
            /\ api'[1].status \in {STATUS_BAD_REQUEST, STATUS_NOT_FOUND, STATUS_UNPROCESSABLE}
            /\ api'[1].body = Absent
            /\ api'[1].storage = NoStorage
            /\ post_cache' = post_cache
            /\ posts_list_cache' = posts_list_cache
            /\ slug_map_cache' = slug_map_cache ]_vars

\* A slug of two dots was rejected while a post sat in the cache.
C12_Witness ==
    /\ api # Absent
    /\ api[1].route = "/post/{slug}"
    /\ api[1].slug = <<".", ".">>
    /\ api[1].status = STATUS_UNPROCESSABLE
    /\ HasKey(post_cache, <<"a">>)

\* The posts of the directory that load and parse.
GoodSlugs == { slug \in Slugs : content.files[slug].kind = "post" }

\* Storage itself works: the directory can be listed and every file read.
StorageWorks ==
    /\ content.dir # "unlistable"
    /\ \A slug \in Slugs : content.files[slug].kind # "storage_error"

\* C14: when storage works, a listing built on a miss succeeds with exactly
\* the posts that load and parse; a post that is not found or whose front
\* matter or metadata is malformed is left out and fails nothing.
C14_PartialFailure ==
    (api # Absent /\ api[1].route = "/posts" /\ api[1].handler_ran /\ StorageWorks) =>
        /\ api[1].status = STATUS_OK
        /\ { api[1].all_summaries[1][i].slug : i \in 1..Len(api[1].all_summaries[1]) }
              = GoodSlugs
        /\ Len(api[1].all_summaries[1]) = Cardinality(GoodSlugs)

\* The step is a request to GET /posts.
IsListPosts == now' = now /\ api' # Absent /\ api'[1].route = "/posts"

\* A limit outside 1..100 or an offset below 0 was given.
OutOfRange(query) ==
    \/ query.limit # Absent /\ query.limit[1] \notin 1..MAX_PAGE_LIMIT
    \/ query.offset # Absent /\ query.offset[1] < 0

\* C18: GET /posts with a limit outside 1..100 or an offset below 0 is
\* answered 422 without the handler running: no storage access, no cache
\* changed; the handler runs with values in range only, and a query that
\* leaves both out runs it with limit 20 and offset 0.
C18_QueryValidation ==
    [][ IsListPosts =>
          LET r == api'[1]
          IN  /\ OutOfRange(r.query) =>
                    /\ r.status = STATUS_UNPROCESSABLE
                    /\ ~r.handler_ran
                    /\ r.storage = NoStorage
                    /\ r.body = Absent
                    /\ UNCHANGED <<posts_list_cache, post_cache, slug_map_cache, cache_op>>
              /\ ~OutOfRange(r.query) => r.handler_ran /\ r.status # STATUS_UNPROCESSABLE
              /\ r.handler_ran => r.limit \in 1..MAX_PAGE_LIMIT /\ r.offset >= 0
              /\ (r.query.limit = Absent /\ r.query.offset = Absent /\ r.status = STATUS_OK) =>
                    /\ r.body[1].limit = DEFAULT_PAGE_LIMIT
                    /\ r.body[1].offset = 0
                    /\ r.body[1].posts = Slice(r.all_summaries[1], 0, DEFAULT_PAGE_LIMIT) ]_vars

\* A limit of 101 was refused while a listing sat in the cache.
C18_Witness ==
    /\ api # Absent
    /\ api[1].route = "/posts"
    /\ api[1].query.limit = Some(MAX_PAGE_LIMIT + 1)
    /\ api[1].status = STATUS_UNPROCESSABLE
    /\ Contains(posts_list_cache, POSTS_LIST_KEY, now)
    /\ Len(EntryOf(posts_list_cache, POSTS_LIST_KEY).value) = 3

\* Building the listing fails with a storage error: the directory cannot be
\* listed, or a file cannot be read (and none fails in another way first).
StorageFails ==
    \/ content.dir = "unlistable"
    \/ /\ content.dir = "ok"
       /\ \E slug \in Slugs : content.files[slug].kind = "storage_error"
       /\ \A slug \in Slugs : content.files[slug].kind # "type_error"

\* The step is a GET /posts whose handler ran and found no unexpired listing.
IsListMiss ==
    /\ IsListPosts /\ api'[1].handler_ran
    /\ ~Contains(posts_list_cache, POSTS_LIST_KEY, now)

\* C29: a GET /posts that misses the cache and whose build fails with a
\* storage error (the slugs cannot be listed, or a load raises a storage
\* error) is answered 503 and leaves the posts-list cache as it was, with
\* no listing in it; the GET /posts after a 503 goes to storage again and
\* never serves from the cache.
C29_StorageErrorNotCached ==
    [][ /\ (IsListMiss /\ StorageFails) =>
              /\ api'[1].status = STATUS_UNAVAILABLE
              /\ api'[1].error # Absent /\ api'[1].error[1].error_code = "CONTENT_ERROR"
              /\ api'[1].body = Absent
              /\ api'[1].storage.lists = 1
              /\ posts_list_cache' = posts_list_cache
              /\ ~Contains(posts_list_cache', POSTS_LIST_KEY, now)
        /\ (IsListPosts /\ api'[1].status = STATUS_UNAVAILABLE) =>
              ~Contains(posts_list_cache', POSTS_LIST_KEY, now)
        /\ ( /\ IsListPosts /\ api'[1].handler_ran
             /\ api # Absent /\ api[1].route = "/posts"
             /\ api[1].status = STATUS_UNAVAILABLE ) =>
              /\ ~api'[1].cache_hit
              /\ api'[1].storage.lists = 1 ]_vars

\* A 503 from a directory in which a file cannot be read, met after another
\* file had been loaded: the cache is empty after it.
C29_Witness ==
    /\ api # Absent /\ api[1].route = "/posts"
    /\ api[1].status = STATUS_UNAVAILABLE
    /\ api[1].storage.lists = 1 /\ api[1].storage.loads >= 2
    /\ content.dir = "ok"
    /\ \E slug \in Slugs : content.files[slug].kind = "storage_error"
    /\ \E slug \in Slugs : content.files[slug].kind = "post"
    /\ posts_list_cache = EmptyCache
    /\ now = MINUTE

\* The step is a single-post fetch that reached the handler and missed the cache.
IsPostMiss == IsGetPost /\ api'[1].handler_ran /\ ~api'[1].cache_hit

\* C15: on a cache miss of a single-post fetch, a slug that the source does
\* not have gives 404 and front matter that does not parse gives 400, the
\* individual-post cache staying as it was; the cache changes only with a
\* 200, which comes from a post that loads and parses, and then holds that
\* post under its slug and nothing else new.
C15_MissOutcomes ==
    [][ IsPostMiss =>
          LET r == api'[1]
              f == FileOf(content, r.slug)
          IN  /\ f.kind \in {"absent", "not_found"} =>
                    r.status = STATUS_NOT_FOUND /\ post_cache' = post_cache
              /\ f.kind = "invalid" =>
                    r.status = STATUS_BAD_REQUEST /\ post_cache' = post_cache
              /\ r.status = STATUS_OK <=> f.kind = "post"
              /\ r.status # STATUS_OK => post_cache' = post_cache /\ r.body = Absent
              /\ r.status = STATUS_OK =>
                    /\ r.body = Some([ meta |-> [ slug |-> r.slug, date |-> f.date ],
                                       content |-> MarkdownOf(r.slug, f) ])
                    /\ HasKey(post_cache', r.slug)
                    /\ EntryOf(post_cache', r.slug).value = r.body[1]
                    /\ KeysOf(post_cache') \subseteq KeysOf(post_cache) \cup { r.slug } ]_vars

\* Front matter that does not parse was answered 400 and nothing was cached.
C15_Witness ==
    /\ api # Absent
    /\ api[1].route = "/post/{slug}"
    /\ api[1].slug = <<"a">>
    /\ api[1].handler_ran
    /\ api[1].status = STATUS_BAD_REQUEST
    /\ content.files[<<"a">>].kind = "invalid"
    /\ post_cache = EmptyCache

Cleared(o) == o # Absent /\ o[1].op = "clear"

AllCaches == <<posts_list_cache, post_cache, slug_map_cache>>

\* C16: clear_all_caches leaves the three caches with no entry, whatever
\* they held; a get of any key that follows it returns absent and the sizes
\* reported after it are 0; a second clear changes nothing.
C16_ClearTotalIdempotent ==
    [][ /\ (CacheStep /\ Cleared(cache_op')) =>
              /\ AllCaches' = <<EmptyCache, EmptyCache, EmptyCache>>
              /\ \A name \in CacheNames : CacheLen(TheCache(name)', now) = 0
        /\ (CacheStep /\ Cleared(cache_op) /\ cache_op'[1].op = "get") =>
              cache_op'[1].result = Absent
        /\ (CacheStep /\ Cleared(cache_op) /\ cache_op'[1].op = "stats") =>
              /\ cache_op'[1].result[1].posts_list_size = 0
              /\ cache_op'[1].result[1].post_cache_size = 0
              /\ cache_op'[1].result[1].slug_map_size = 0
        /\ (CacheStep /\ Cleared(cache_op) /\ Cleared(cache_op')) =>
              UNCHANGED <<posts_list_cache, post_cache, slug_map_cache, cache_op>> ]_vars

\* A clear has emptied the caches after time has passed.
C16_Witness ==
    /\ Cleared(cache_op)
    /\ now > 0
    /\ cache_ttl_seconds > 0
    /\ AllCaches = <<EmptyCache, EmptyCache, EmptyCache>>

\* The body of the 500 of the general exception handler.
GenericError == [ detail |-> <<"Internal server error">>, error_code |-> "INTERNAL_ERROR" ]

\* C17: a single-post fetch is answered by the kind of its failure: 404 for
\* a slug the source does not have, 400 for a validation error (a slug that
\* is not well formed, or front matter that does not parse), 503 after one
\* single load for a storage failure, and 500 with the fixed generic body
\* for any other error.
C17_ErrorStatuses ==
    (api # Absent /\ api[1].route = "/post/{slug}" /\ RouteMatches(api[1].slug)) =>
        LET r == api[1]
            f == FileOf(content, r.slug)
        IN  /\ ~WellFormedSlug(r.slug) => r.status = STATUS_BAD_REQUEST
            /\ (WellFormedSlug(r.slug) /\ f.kind \in {"absent", "not_found"}) =>
                    r.status = STATUS_NOT_FOUND
            /\ (WellFormedSlug(r.slug) /\ f.kind = "invalid") =>
                    r.status = STATUS_BAD_REQUEST
            /\ (WellFormedSlug(r.slug) /\ f.kind = "storage_error") =>
                    r.status = STATUS_UNAVAILABLE /\ r.storage = OneLoad
            /\ (WellFormedSlug(r.slug) /\ f.kind = "type_error") =>
                    r.status = STATUS_INTERNAL /\ r.error = Some(GenericError)

-----------------------------------------------------------------------------
(* Concurrent calls of the set functions.  The handlers are coroutines of    *)
(* one event loop and the set functions do not await: a call that has       *)
(* started runs to its end, and the calls in flight run in any order.       *)

\* The values the calls in flight store.
TaskValues == {"v1", "v2"}

\* The cache and the key a call of a set function writes.
SetTargets ==
    { [ cache |-> "posts_list", key |-> POSTS_LIST_KEY ],
      [ cache |-> "slug_map", key |-> SLUG_MAP_KEY ] }
    \cup { [ cache |-> "post", key |-> slug ] : slug \in Slugs }

\* Time passes between two calls: less than the ttl, or the ttl.
SetTick ==
    /\ \E t \in {MINUTE - 1, MINUTE} : t > now /\ now' = t
    /\ UNCHANGED <<limiterVars, cacheVars, apiVars, taskVars>>

\* A handler is about to call a set function of the cache the calls in
\* flight share.
SetArrives(target) ==
    /\ Len(tasks) < MaxTasks
    /\ \A i \in 1..Len(tasks) : tasks[i].cache = target.cache
    /\ tasks' = Append(tasks, [ cache |-> target.cache, key |-> target.key,
                                pc |-> "pending", wrote |-> Absent, at |-> Absent ])
    /\ UNCHANGED <<now, limiterVars, cacheVars, apiVars, checked>>

\* The call of task i runs: cache[key] = value.
SetRuns(i, value) ==
    LET tk == IF i <= Len(tasks) THEN tasks[i] ELSE [ pc |-> "none" ]
    IN  /\ i <= Len(tasks)
        /\ tk.pc = "pending"
        /\ posts_list_cache' =
              IF tk.cache = "posts_list"
              THEN SetPostsListCached(posts_list_cache, value, now)
              ELSE posts_list_cache
        /\ post_cache' =
              IF tk.cache = "post"
              THEN CacheSet(post_cache, tk.key, value, now, MAX_INDIVIDUAL_POST_CACHE)
              ELSE post_cache
        /\ slug_map_cache' =
              IF tk.cache = "slug_map"
              THEN CacheSet(slug_map_cache, SLUG_MAP_KEY, value, now, SLUG_MAP_CACHE_SIZE)
              ELSE slug_map_cache
        /\ cache_op' = CacheOp("set", tk.cache, tk.key, Some(value), Absent)
        /\ tasks' = [ tasks EXCEPT ![i] = [ tk EXCEPT !.pc = "done",
                                                      !.wrote = Some(value),
                                                      !.at = Some(now) ] ]
        /\ UNCHANGED <<now, limiterVars, cache_ttl_seconds, apiVars, checked>>

InitSets ==
    /\ now = 0
    /\ LimiterCreated({PER_MINUTE}, {PER_HOUR}, {TRUE})
    /\ CachesCreated({MINUTE})
    /\ ApiCreated({NoDirectory})

NextSets ==
    \/ SetTick
    \/ \E target \in SetTargets : SetArrives(target)
    \/ \E i \in 1..MaxTasks, value \in TaskValues : SetRuns(i, value)

SpecSets == InitSets /\ [][NextSets]_vars

\* The calls that have written key of the cache called name.
Writers(name, key) ==
    { i \in 1..Len(tasks) :
        tasks[i].pc = "done" /\ tasks[i].cache = name /\ tasks[i].key = key }

\* The keys that calls have written in the cache called name.
WrittenKeys(name) ==
    { tasks[i].key : i \in { j \in 1..Len(tasks) :
                               tasks[j].pc = "done" /\ tasks[j].cache = name } }

\* Some write of the key is younger than the ttl, and the keys written in
\* the cache are no more than it holds: neither expiry nor eviction is due.
Settled(name, key) ==
    /\ \E i \in Writers(name, key) : now < tasks[i].at[1] + cache_ttl_seconds
    /\ Cardinality(WrittenKeys(name)) <= CapacityOf(name)

\* C19: whatever the order in which the set calls in flight run, each cache
\* holds at most its capacity of entries, no key has two entries, every
\* entry holds a value that some call wrote under its key, and a key that
\* was written and is due neither for expiry nor for eviction has its entry.
C19_ConcurrentSets ==
    \A name \in CacheNames :
        LET c == TheCache(name)
        IN  /\ Len(c) <= CapacityOf(name)
            /\ \A i, j \in 1..Len(c) : c[i].key = c[j].key => i = j
            /\ \A i \in 1..Len(c) :
                   \E k \in Writers(name, c[i].key) : tasks[k].wrote = Some(c[i].value)
            /\ \A key \in WrittenKeys(name) : Settled(name, key) => HasKey(c, key)

\* Two calls have written different values under one key of the posts
\* cache, a third has written another key, and the cache is full.
C19_Witness ==
    /\ Len(post_cache) = MAX_INDIVIDUAL_POST_CACHE
    /\ \E i, j \in 1..Len(tasks) :
          /\ i # j
          /\ tasks[i].pc = "done" /\ tasks[j].pc = "done"
          /\ tasks[i].cache = "post" /\ tasks[j].cache = "post"
          /\ tasks[i].key = tasks[j].key
          /\ tasks[i].wrote # tasks[j].wrote
          /\ HasKey(post_cache, tasks[i].key)

-----------------------------------------------------------------------------
(* Concurrent requests through the middleware.  dispatch is a coroutine: it *)
(* runs without interruption from its start to `await call_next(request)`,  *)
(* other requests run while it waits there, and it resumes to add the       *)
(* headers.                                                                 *)

\* Time passes between two steps: to either side of the end of the minute
\* and of the hour that began at 0.
RequestTick ==
    /\ \E t \in {MINUTE - 1, MINUTE, HOUR - 1, HOUR} : t > now /\ now' = t
    /\ UNCHANGED <<limiterVars, cacheVars, apiVars, taskVars>>

\* The requests in flight: those of the client behind the proxy.
ConcurrentRequests == { r \in LimiterRequests : r.xff = Some(<<"a">>) }

\* A request reaches the server: its dispatch is scheduled.
RequestArrives(request) ==
    /\ Len(tasks) < MaxTasks
    /\ tasks' = Append(tasks, [ request |-> request, pc |-> "arrived",
                                client_ip |-> Absent, is_limited |-> FALSE,
                                allowed_at |-> Absent, headers |-> NoHeaders,
                                response |-> Absent ])
    /\ UNCHANGED <<now, limiterVars, cacheVars, apiVars, checked>>

\* dispatch of task i runs up to its await: the skip test, the identity,
\* the check and, when allowed, the append; a limited request is answered
\* at once.
DispatchEnters(i) ==
    LET tk == IF i <= Len(tasks) THEN tasks[i] ELSE [ pc |-> "none" ]
        d == Dispatch(buckets, tk.request, now, Some(STATUS_OK))
        allowed_at == IF d.rec.skipped \/ d.rec.is_limited THEN Absent ELSE Some(now)
    IN  /\ i <= Len(tasks)
        /\ tk.pc = "arrived"
        /\ buckets' = d.buckets
        /\ tasks' = [ tasks EXCEPT ![i] =
                        [ tk EXCEPT !.pc = IF d.rec.is_limited THEN "done" ELSE "awaiting",
                                    !.client_ip = d.rec.client_ip,
                                    !.is_limited = d.rec.is_limited,
                                    !.allowed_at = allowed_at,
                                    !.headers = d.rec.headers,
                                    !.response = IF d.rec.is_limited
                                                 THEN Some(d.rec.response) ELSE Absent ] ]
        /\ UNCHANGED <<now, requests_per_minute, requests_per_hour, enabled, last,
                       buckets2, seenY, seenY2, cacheVars, apiVars, checked>>

\* call_next of task i returns or raises, and dispatch ends.
DispatchResumes(i, out) ==
    LET tk == IF i <= Len(tasks) THEN tasks[i] ELSE [ pc |-> "none" ]
    IN  /\ i <= Len(tasks)
        /\ tk.pc = "awaiting"
        /\ tasks' = [ tasks EXCEPT ![i] =
                        [ tk EXCEPT !.pc = "done",
                                    !.response =
                                        Some(IF out = Absent THEN InternalError
                                             ELSE AddHeaders(CallNext(out), tk.headers)) ] ]
        /\ UNCHANGED <<now, limiterVars, cacheVars, apiVars, checked>>

InitRequests ==
    /\ now = 0
    /\ LimiterCreated({MaxPerMinute}, {MaxPerHour}, {TRUE})
    /\ CachesCreated({DEFAULT_TTL})
    /\ ApiCreated({NoDirectory})

NextRequests ==
    \/ RequestTick
    \/ \E request \in ConcurrentRequests : RequestArrives(request)
    \/ \E i \in 1..MaxTasks : DispatchEnters(i)
    \/ \E i \in 1..MaxTasks, out \in Outcomes : DispatchResumes(i, out)

SpecRequests == InitRequests /\ [][NextRequests]_vars

\* The requests of identity ip that the limiter allowed at an instant in
\* the span seconds that end with t.
AllowedIn(ip, t, span) ==
    { i \in 1..Len(tasks) :
        /\ tasks[i].client_ip = Some(ip)
        /\ tasks[i].allowed_at # Absent
        /\ t - span < tasks[i].allowed_at[1]
        /\ tasks[i].allowed_at[1] <= t }

\* C20: however the requests of one client interleave, the requests of it
\* that the limiter allowed within any 60 seconds are at most
\* requests_per_minute, and within any 3600 seconds at most
\* requests_per_hour.  (A span that holds allowed requests holds no more of
\* them than the span of the same length that ends with the last of them.)
C20_AtomicWindows ==
    \A i \in 1..Len(tasks) :
        tasks[i].allowed_at # Absent =>
            LET ip == tasks[i].client_ip[1]
                t == tasks[i].allowed_at[1]
            IN  /\ Cardinality(AllowedIn(ip, t, MINUTE)) <= requests_per_minute
                /\ Cardinality(AllowedIn(ip, t, HOUR)) <= requests_per_hour

\* Two requests of one client are waiting in call_next at once, both
\* allowed, and a third of the same client was limited meanwhile.
C20_Witness ==
    \E i, j, k \in 1..Len(tasks) :
        /\ i # j
        /\ tasks[i].pc = "awaiting" /\ tasks[j].pc = "awaiting"
        /\ tasks[i].allowed_at # Absent /\ tasks[j].allowed_at # Absent
        /\ tasks[i].client_ip = tasks[j].client_ip
        /\ tasks[k].client_ip = tasks[i].client_ip
        /\ tasks[k].is_limited

-----------------------------------------------------------------------------
(* Concurrent requests to the handlers.  The handlers are coroutines without *)
(* an await: of the requests in flight one handler at a time runs, from its  *)
(* cache lookup to its response, in any order; between two of them time may  *)
(* pass and the content may change.                                          *)

\* The files of these runs: <<"-">> is a post, <<"a">> is a post with one of
\* the dates or is not there, and os.listdir gives them in one of two orders.
FlightFiles(fa) ==
    [ slug \in Slugs |->
        IF slug = <<"a">> THEN fa
        ELSE IF slug = <<"-">> THEN [ kind |-> "post", date |-> <<57>> ]
        ELSE NoFile ]

FlightOrders == { << <<"a">>, <<"-">>, <<"a", "a">> >>, << <<"-">>, <<"a">>, <<"a", "a">> >> }

\* (The order of os.listdir shows in a listing only between posts of one date.)
FlightContents ==
    { c \in { [ dir |-> "ok", files |-> FlightFiles(fa), order |-> o ] :
                fa \in {NoFile} \cup [ kind : {"post"}, date : Dates ], o \in FlightOrders } :
        c.files[<<"a">>].date # <<57>> => c.order[1] = <<"a">> }

NoQuery == [ limit |-> Absent, offset |-> Absent ]

\* The requests in flight: GET /post/a, GET /posts, GET /posts?limit=2&offset=1
\* and POST /cache/clear.
FlightKinds ==
    { [ kind |-> "post", slug |-> <<"a">>, query |-> NoQuery ],
      [ kind |-> "list", slug |-> << >>, query |-> NoQuery ],
      [ kind |-> "list", slug |-> << >>, query |-> [ limit |-> Some(2), offset |-> Some(1) ] ],
      [ kind |-> "clear", slug |-> << >>, query |-> NoQuery ] }

\* Requests arrive together: all of them are in flight before a handler runs.
FlightArrives(k) ==
    /\ Len(tasks) < MaxFlights
    /\ \A i \in 1..Len(tasks) : tasks[i].pc = "pending"
    /\ tasks' = Append(tasks, [ kind |-> k.kind, slug |-> k.slug, query |-> k.query,
                                pc |-> "pending",
                                response |-> Absent, seen |-> Absent ])
    /\ UNCHANGED <<now, limiterVars, cacheVars, apiVars, checked>>

\* The handler of task i runs.
FlightRuns(i) ==
    LET tk == IF i <= Len(tasks) THEN tasks[i]
              ELSE [ pc |-> "none", kind |-> "none", slug |-> << >>, query |-> NoQuery ]
        p == GetPost(content, tk.slug, now)
        l == ListPosts(content, tk.query, content.order, now)
        response ==
            CASE tk.kind = "post" -> p.response
              [] tk.kind = "list" -> l.response
              [] OTHER -> [ route |-> "/cache/clear", status |-> STATUS_OK ]
    IN  /\ i <= Len(tasks)
        /\ tk.pc = "pending"
        /\ post_cache' = CASE tk.kind = "post" -> p.cache
                            [] tk.kind = "clear" -> EmptyCache
                            [] OTHER -> post_cache
        /\ posts_list_cache' = CASE tk.kind = "list" -> l.cache
                                  [] tk.kind = "clear" -> EmptyCache
                                  [] OTHER -> posts_list_cache
        /\ slug_map_cache' = IF tk.kind = "clear" THEN EmptyCache ELSE slug_map_cache
        /\ tasks' = [ tasks EXCEPT ![i] = [ tk EXCEPT !.pc = "done",
                                                      !.response = Some(response),
                                                      !.seen = Some(content) ] ]
        /\ UNCHANGED <<now, limiterVars, cache_ttl_seconds, cache_op, apiVars, checked>>

\* A post is edited, added or deleted, or the directory is rewritten.
ContentChanges(c) ==
    /\ c # content
    /\ content' = c
    /\ UNCHANGED <<now, limiterVars, cacheVars, api, taskVars>>

\* Time passes between two handlers: less than the ttl, or the ttl.
FlightTick ==
    /\ \E t \in {MINUTE - 1, MINUTE} : t > now /\ now' = t
    /\ UNCHANGED <<limiterVars, cacheVars, apiVars, taskVars>>

InitFlights ==
    /\ now = 0
    /\ LimiterCreated({PER_MINUTE}, {PER_HOUR}, {TRUE})
    /\ CachesCreated({MINUTE})
    /\ ApiCreated(FlightContents)

NextFlights ==
    \/ FlightTick
    \/ \E k \in FlightKinds : FlightArrives(k)
    \/ \E i \in 1..MaxFlights : FlightRuns(i)
    \/ \E c \in FlightContents : ContentChanges(c)

SpecFlights == InitFlights /\ [][NextFlights]_vars

\* The cache and the key a request reads and populates.
FlightKey(tk) == IF tk.kind = "post" THEN tk.slug ELSE POSTS_LIST_KEY

FlightCache(tk) == IF tk.kind = "post" THEN post_cache ELSE posts_list_cache

\* The request of the task missed the cache, loaded and parsed, and wrote.
Populated(tk) ==
    /\ tk.pc = "done"
    /\ tk.kind \in {"post", "list"}
    /\ tk.response[1].status = STATUS_OK
    /\ ~tk.response[1].cache_hit

\* What it wrote.
Written(tk) ==
    IF tk.kind = "post" THEN tk.response[1].body[1] ELSE tk.response[1].all_summaries[1]

ClearDone == \E i \in 1..Len(tasks) : tasks[i].kind = "clear" /\ tasks[i].pc = "done"

\* C21: requests in flight together may each miss, load and write; the
\* caches then hold one entry a key, the entry holds what one of those
\* requests wrote, two requests that loaded the same content wrote the same,
\* and the entry is there unless a clear came.
C21_NotSingleFlight ==
    /\ \A name \in CacheNames :
          \A i, j \in 1..Len(TheCache(name)) :
              TheCache(name)[i].key = TheCache(name)[j].key => i = j
    /\ \A i \in 1..Len(tasks) :
          Populated(tasks[i]) =>
              /\ ~ClearDone => HasKey(FlightCache(tasks[i]), FlightKey(tasks[i]))
              /\ HasKey(FlightCache(tasks[i]), FlightKey(tasks[i])) =>
                    \E k \in 1..Len(tasks) :
                        /\ Populated(tasks[k])
                        /\ tasks[k].kind = tasks[i].kind
                        /\ FlightKey(tasks[k]) = FlightKey(tasks[i])
                        /\ EntryOf(FlightCache(tasks[i]), FlightKey(tasks[i])).value
                              = Written(tasks[k])
              /\ \A j \in 1..Len(tasks) :
                    ( /\ Populated(tasks[j])
                      /\ tasks[j].kind = tasks[i].kind
                      /\ FlightKey(tasks[j]) = FlightKey(tasks[i])
                      /\ tasks[j].seen = tasks[i].seen ) =>
                        Written(tasks[j]) = Written(tasks[i])

\* Two requests for one key were in flight together, both missed and both
\* wrote, with the content the same for both.
C21_Witness ==
    \E i, j \in 1..Len(tasks) :
        /\ i # j
        /\ Populated(tasks[i]) /\ Populated(tasks[j])
        /\ tasks[i].kind = tasks[j].kind
        /\ tasks[i].seen = tasks[j].seen
        /\ HasKey(FlightCache(tasks[i]), FlightKey(tasks[i]))

-----------------------------------------------------------------------------
(* The request pipeline (main.py).  app.add_middleware puts the class it is  *)
(* given at the front of the application's middleware list, and the stack   *)
(* is built with the front of the list outermost: the class added last is   *)
(* the first a request meets.                                               *)

\* The add_middleware calls of main.py, in the order of the file.
AddedMiddleware == <<"logging", "rate_limit", "compression", "cors">>

\* app.add_middleware(cls)
AddMiddleware(stack, cls) == <<cls>> \o stack

RECURSIVE MiddlewareStack(_)
MiddlewareStack(added) ==
    IF added = << >> THEN << >>
    ELSE AddMiddleware(MiddlewareStack(SubSeq(added, 1, Len(added) - 1)), added[Len(added)])

\* The stages a request meets, outermost first, down to the handler.
Pipeline == MiddlewareStack(AddedMiddleware) \o <<"routing", "handler">>

\* A request reaches the application.
PipelineArrives(request) ==
    /\ Len(tasks) < MaxFlights
    /\ tasks' = Append(tasks, [ request |-> request, pos |-> 1, trace |-> << >>,
                                is_limited |-> FALSE, response |-> Absent ])
    /\ UNCHANGED <<now, limiterVars, cacheVars, apiVars, checked>>

\* The request of task i enters its next stage.  The rate limit stage
\* answers a limited request itself; every other stage hands it on, and the
\* handler answers it.
StageRuns(i) ==
    LET tk == IF i <= Len(tasks) THEN tasks[i] ELSE [ response |-> Some(0) ]
        stage == Pipeline[tk.pos]
        d == Dispatch(buckets, tk.request, now, Some(STATUS_OK))
        denied == stage = "rate_limit" /\ d.rec.is_limited
    IN  /\ i <= Len(tasks)
        /\ tk.response = Absent
        /\ buckets' = IF stage = "rate_limit" THEN d.buckets ELSE buckets
        /\ tasks' = [ tasks EXCEPT ![i] =
                        [ tk EXCEPT !.trace = Append(tk.trace, stage),
                                    !.pos = tk.pos + 1,
                                    !.is_limited = denied,
                                    !.response =
                                        IF denied THEN Some(STATUS_TOO_MANY)
                                        ELSE IF stage = "handler" THEN Some(STATUS_OK)
                                        ELSE Absent ] ]
        /\ UNCHANGED <<now, requests_per_minute, requests_per_hour, enabled, last,
                       buckets2, seenY, seenY2, cacheVars, apiVars, checked>>

InitPipeline ==
    /\ now = 0
    /\ LimiterCreated({MaxPerMinute}, {MaxPerHour}, {TRUE})
    /\ CachesCreated({DEFAULT_TTL})
    /\ ApiCreated({NoDirectory})

NextPipeline ==
    \/ RequestTick
    \/ \E request \in ConcurrentRequests : PipelineArrives(request)
    \/ \E i \in 1..MaxFlights : StageRuns(i)

SpecPipeline == InitPipeline /\ [][NextPipeline]_vars

\* The stages in the order the pipeline is said to have.
StatedOrder == <<"rate_limit", "compression", "logging", "routing", "handler">>

IsPrefix(a, b) == Len(a) <= Len(b) /\ a = SubSeq(b, 1, Len(a))

\* C22: the stages of StatedOrder that a request has met are the first of
\* that order, in that order, and a request the limiter denied has met the
\* rate limit stage only.
C22_PipelineOrder ==
    \A i \in 1..Len(tasks) :
        LET met == SelectSeq(tasks[i].trace,
                             LAMBDA stage : \E n \in 1..Len(StatedOrder) : StatedOrder[n] = stage)
        IN  /\ IsPrefix(met, StatedOrder)
            /\ tasks[i].is_limited => met = <<"rate_limit">>

\* The text of the Cache-Control header and the quoted hash of a value.
CacheControlOf(ttl) == <<"public, max-age=", ttl>>

QuotedHash(x) == << "\"", "md5", x, "\"" >>

\* C23: a 200 of GET /posts or GET /post/{slug}, served from the cache or
\* from storage, carries Cache-Control: public, max-age=<ttl> and an ETag;
\* the ETag of a listing is the quoted hash of its total, offset and limit,
\* that of a post the quoted hash of its body.
C23_CacheHeaders ==
    \A i \in 1..Len(tasks) :
        ( /\ tasks[i].pc = "done"
          /\ tasks[i].kind \in {"post", "list"}
          /\ tasks[i].response[1].status = STATUS_OK ) =>
            LET r == tasks[i].response[1]
            IN  /\ r.headers # Absent
                /\ DOMAIN r.headers[1] = {"Cache-Control", "ETag"}
                /\ r.headers[1]["Cache-Control"] = CacheControlOf(cache_ttl_seconds)
                /\ tasks[i].kind = "list" =>
                      r.headers[1]["ETag"] =
                          QuotedHash(<<r.body[1].total, r.body[1].offset, r.body[1].limit>>)
                /\ tasks[i].kind = "post" =>
                      r.headers[1]["ETag"] = QuotedHash(r.body[1].content)

\* Of two listings and two posts served, one of each came from the cache
\* and one from storage.
C23_Witness ==
    \E i, j \in 1..Len(tasks) :
        /\ tasks[i].pc = "done" /\ tasks[j].pc = "done"
        /\ tasks[i].kind = tasks[j].kind
        /\ tasks[i].kind \in {"post", "list"}
        /\ tasks[i].response[1].status = STATUS_OK
        /\ tasks[j].response[1].status = STATUS_OK
        /\ tasks[i].response[1].cache_hit
        /\ ~tasks[j].response[1].cache_hit

-----------------------------------------------------------------------------
(* The slug-to-key map of the object store (s3_client.py) *)

\* The keys the bucket may hold, in the order list_objects_v2 gives them:
\* p/a.md, p/b.MD, p/c.txt and p/x/a.md.
StoreKeys ==
    << <<"p", "/", "a", ".", "m", "d">>,
       <<"p", "/", "b", ".", "M", "D">>,
       <<"p", "/", "c", ".", "t", "x", "t">>,
       <<"p", "/", "x", "/", "a", ".", "m", "d">> >>

\* The bucket: the keys it holds, and whether listing it fails.
Stores ==
    [ keys : SUBSET { StoreKeys[i] : i \in 1..Len(StoreKeys) }, fails : BOOLEAN ]

\* key.split("/")[-1]
Filename(key) == SubSeq(key, LastIndex(key, "/") + 1, Len(key))

\* list_markdown_keys: the keys that end in .md whatever their case, in the
\* order of the listing; S3Error when the listing fails.
list_markdown_keys(store) ==
    IF store.fails THEN Raised("S3Error")
    ELSE Returned(SelectSeq(StoreKeys,
                            LAMBDA key : key \in store.keys /\ EndsWith(Lower(key), DotMd)))

MutPutKeep(slug_map, slug, key) ==
    [ x \in DOMAIN slug_map \cup {slug} |->
        IF x \in DOMAIN slug_map THEN slug_map[x] ELSE key ]

\* slug_map[slug] = key
Put(slug_map, slug, key) ==
    [ x \in DOMAIN slug_map \cup {slug} |-> IF x = slug THEN key ELSE slug_map[x] ]

NoMap == [ x \in {} |-> << >> ]

\* The loop of get_slug_to_key_map over the keys listed.
RECURSIVE BuildSlugMap(_, _)
BuildSlugMap(keys, slug_map) ==
    IF keys = << >> THEN slug_map
    ELSE LET key == Head(keys)
             filename == Filename(key)
         IN  BuildSlugMap(Tail(keys),
                          IF EndsWith(Lower(filename), DotMd)
                          THEN Put(slug_map, Stem(filename), key)
                          ELSE slug_map)

\* get_slug_to_key_map at time t: the cached map, or the map built from a
\* listing of the bucket and cached.
GetSlugToKeyMap(store, t) ==
    LET g == CacheGet(slug_map_cache, SLUG_MAP_KEY, t)
        keys == list_markdown_keys(store)
        slug_map == BuildSlugMap(keys.value, NoMap)
    IN  IF g.result # Absent
        THEN [ cache |-> g.cache, result |-> Returned(g.result[1]), listed |-> 0 ]
        ELSE IF keys.raised # Absent
        THEN [ cache |-> g.cache, result |-> keys, listed |-> 1 ]
        ELSE [ cache |-> CacheSet(g.cache, SLUG_MAP_KEY, slug_map, t, SLUG_MAP_CACHE_SIZE),
               result |-> Returned(slug_map), listed |-> 1 ]

get_slug_to_key_map ==
    LET m == GetSlugToKeyMap(content, now)
    IN  /\ slug_map_cache' = m.cache
        /\ api' = Some([ route |-> "get_slug_to_key_map", result |-> m.result,
                         listed |-> m.listed ])
        /\ UNCHANGED <<now, limiterVars, content, cache_ttl_seconds, posts_list_cache,
                       post_cache, cache_op, taskVars>>

\* Objects are put in the bucket or deleted from it, or the store goes down
\* or comes back.
StoreChanges(store) ==
    /\ store # content
    /\ content' = store
    /\ UNCHANGED <<now, limiterVars, cacheVars, api, taskVars>>

InitSlugMap ==
    /\ now = 0
    /\ LimiterCreated({PER_MINUTE}, {PER_HOUR}, {TRUE})
    /\ CachesCreated({MINUTE})
    /\ ApiCreated(Stores)

NextSlugMap ==
    \/ ApiTick
    \/ get_slug_to_key_map
    \/ cache_clear
    \/ \E store \in Stores : StoreChanges(store)

SpecSlugMap == InitSlugMap /\ [][NextSlugMap]_vars

\* The step is a call of get_slug_to_key_map.
IsMapCall ==
    /\ now' = now
    /\ content' = content
    /\ api' # Absent
    /\ api'[1].route = "get_slug_to_key_map"

\* The whole map of a bucket: every stem of a key that ends in .md, with the
\* last such key of the listing.
MarkdownIndexes(store) ==
    { i \in 1..Len(StoreKeys) :
        StoreKeys[i] \in store.keys /\ EndsWith(Lower(StoreKeys[i]), DotMd) }

WholeMap(store) ==
    [ slug \in { Stem(Filename(StoreKeys[i])) : i \in MarkdownIndexes(store) } |->
        StoreKeys[CHOOSE i \in MarkdownIndexes(store) :
                    /\ Stem(Filename(StoreKeys[i])) = slug
                    /\ \A j \in MarkdownIndexes(store) :
                          Stem(Filename(StoreKeys[j])) = slug => j <= i] ]

\* C24: a call of get_slug_to_key_map that finds an unexpired map returns it
\* without listing the store and leaves the cache as it is; a call that
\* finds none lists the store once and, when the listing works, returns and
\* caches the whole map of the store as it is now, with nothing of an
\* earlier map; when the listing fails it raises and caches nothing.
C24_SlugMapWholesale ==
    [][ IsMapCall =>
          LET r == api'[1]
              live == Contains(slug_map_cache, SLUG_MAP_KEY, now)
          IN  /\ live =>
                    /\ r.listed = 0
                    /\ r.result = Returned(EntryOf(slug_map_cache, SLUG_MAP_KEY).value)
                    /\ slug_map_cache' = slug_map_cache
              /\ (~live /\ ~content.fails) =>
                    /\ r.listed = 1
                    /\ r.result = Returned(WholeMap(content))
                    /\ slug_map_cache' =
                          << [ key |-> SLUG_MAP_KEY, value |-> WholeMap(content),
                               expires |-> now + cache_ttl_seconds ] >>
              /\ (~live /\ content.fails) =>
                    /\ r.listed = 1
                    /\ r.result = Raised("S3Error")
                    /\ Expire(slug_map_cache', now) = << >>
      ]_vars

\* A call has returned the cached map, without a listing, after the store
\* changed: the map is not the map of the store any more, and it was built
\* from a store with two keys for one slug.
C24_Witness ==
    /\ api # Absent
    /\ api[1].route = "get_slug_to_key_map"
    /\ api[1].listed = 0
    /\ ~content.fails
    /\ api[1].result.value # WholeMap(content)
    /\ <<"a">> \in DOMAIN api[1].result.value
    /\ api[1].result.value[<<"a">>] = StoreKeys[4]

\* The step is the run of the handler of task i.
RanNow(i) ==
    /\ i <= Len(tasks)
    /\ Len(tasks') = Len(tasks)
    /\ tasks[i].pc = "pending"
    /\ tasks'[i].pc = "done"

\* C25: a request that finds an unexpired entry is answered from it without
\* any storage access, whatever the source holds by then: GET /post/{slug}
\* returns the cached post without a load, GET /posts a page of the cached
\* listing without enumerating or loading.
C25_HitNoStorage ==
    [][ \A i \in 1..MaxFlights :
          RanNow(i) =>
              LET r == tasks'[i].response[1]
              IN  /\ (tasks[i].kind = "post" /\ tasks[i].slug \in LiveKeys(post_cache, now)) =>
                        /\ r.status = STATUS_OK
                        /\ r.cache_hit
                        /\ r.storage = NoStorage
                        /\ r.body = Some(EntryOf(post_cache, tasks[i].slug).value)
                  /\ (tasks[i].kind = "list" /\ POSTS_LIST_KEY \in LiveKeys(posts_list_cache, now)) =>
                        LET cached == EntryOf(posts_list_cache, POSTS_LIST_KEY).value
                        IN  /\ r.status = STATUS_OK
                            /\ r.cache_hit
                            /\ r.storage = NoStorage
                            /\ r.body[1].total = Len(cached)
                            /\ r.body[1].posts =
                                  Slice(cached, r.offset, r.offset + r.limit)
      ]_vars

\* A post was served from the cache, without a load, when its file had
\* been deleted.
C25_Witness ==
    \E i \in 1..Len(tasks) :
        /\ tasks[i].pc = "done"
        /\ tasks[i].kind = "post"
        /\ tasks[i].response[1].status = STATUS_OK
        /\ tasks[i].response[1].cache_hit
        /\ tasks[i].response[1].storage = NoStorage
        /\ tasks[i].seen[1].files[tasks[i].slug].kind = "absent"

\* The cache a request populates, as the step leaves it.
FlightCacheAfter(tk) == IF tk.kind = "post" THEN post_cache' ELSE posts_list_cache'

\* A clear is in flight together with task i.
ClearInFlightWith(i) ==
    \E j \in 1..Len(tasks) : j # i /\ tasks[j].kind = "clear"

\* The entry is one a populate of the tasks wrote: its key, the value
\* written, and an expiry of a time up to t plus the ttl.
WrittenByAPopulate(name, e, tks, t) ==
    /\ e.expires <= t + cache_ttl_seconds
    /\ \E j \in 1..Len(tks) :
          /\ Populated(tks[j])
          /\ tks[j].kind = (IF name = "post" THEN "post" ELSE "list")
          /\ FlightKey(tks[j]) = e.key
          /\ Written(tks[j]) = e.value

\* C30: of a clear and a populate in flight together, the one whose handler
\* runs last decides: after the clear the populated key is absent (every
\* cache is empty), after the populate the key holds the populated value
\* with expiry now + ttl.  Whatever the order, every entry of a cache is the
\* whole entry some populate wrote under its own key, one entry a key, and
\* no cache exceeds its capacity.
C30_ClearRace ==
    [][ \A i \in 1..MaxFlights :
          RanNow(i) =>
            /\ tasks[i].kind = "clear" =>
                  /\ posts_list_cache' = EmptyCache
                  /\ post_cache' = EmptyCache
                  /\ slug_map_cache' = EmptyCache
            /\ (Populated(tasks'[i]) /\ ClearInFlightWith(i)) =>
                  /\ HasKey(FlightCacheAfter(tasks'[i]), FlightKey(tasks'[i]))
                  /\ EntryOf(FlightCacheAfter(tasks'[i]), FlightKey(tasks'[i])) =
                        [ key |-> FlightKey(tasks'[i]), value |-> Written(tasks'[i]),
                          expires |-> now + cache_ttl_seconds ]
            /\ \A name \in CacheNames :
                  /\ Len(TheCache(name)') <= CapacityOf(name)
                  /\ Cardinality(KeysOf(TheCache(name)')) = Len(TheCache(name)')
                  /\ \A k \in 1..Len(TheCache(name)') :
                        WrittenByAPopulate(name, TheCache(name)'[k], tasks', now) ]_vars

\* A clear and a GET /post/a were in flight together, the post was loaded
\* and cached, and the clear ran first: the entry is there.
C30_Witness ==
    /\ Len(tasks) = 2
    /\ ClearDone
    /\ \E i \in 1..Len(tasks) :
          /\ tasks[i].kind = "post" /\ Populated(tasks[i])
          /\ post_cache = << [ key |-> tasks[i].slug, value |-> Written(tasks[i]),
                               expires |-> now + cache_ttl_seconds ] >>
    /\ posts_list_cache = EmptyCache

-----------------------------------------------------------------------------
(* GET /posts over the file names of a local content directory *)

MaxNames == 3

\* The file names of these runs: a post, a file whose stem ends in a
\* newline, a text file, a stem that is a space, a name that is all
\* extension, and a post with an upper-case extension.
DirNames ==
    << <<"a", ".", "m", "d">>,
       <<"a", "\n", ".", "m", "d">>,
       <<"a", ".", "t", "x", "t">>,
       <<" ", ".", "m", "d">>,
       <<".", "m", "d">>,
       <<"-", ".", "M", "D">> >>

\* The stems a listing of such names can give.
DirStems == { Stem(DirNames[i]) : i \in 1..Len(DirNames) }

\* open(<slug>.md) finds the file of that very name.
DirFiles(names) ==
    [ slug \in DirStems |->
        IF \E i \in 1..Len(names) : names[i] = FileNameOf(slug)
        THEN [ kind |-> "post", date |-> <<57>> ]
        ELSE NoFile ]

\* A directory of some of the names, in the order of DirNames.
Directory(chosen) ==
    LET names == SelectSeq(DirNames, LAMBDA name : name \in chosen)
    IN  [ dir |-> "ok", names |-> names, files |-> DirFiles(names) ]

\* The content directories: none, or one of up to MaxNames of the names.
Directories ==
    { [ dir |-> "missing", names |-> << >>, files |-> DirFiles(<< >>) ] } \cup
    { Directory(chosen) :
        chosen \in { S \in SUBSET { DirNames[i] : i \in 1..Len(DirNames) } :
                        Cardinality(S) <= MaxNames } }

DirQueries == { NoQuery, [ limit |-> Some(2), offset |-> Some(1) ] }

\* Files are added to or taken from the directory, or it is made or removed.
DirectoryChanges(c) ==
    /\ c # content
    /\ content' = c
    /\ UNCHANGED <<now, limiterVars, cacheVars, api, checked, tasks>>

InitDirectory ==
    /\ now = 0
    /\ LimiterCreated({PER_MINUTE}, {PER_HOUR}, {TRUE})
    /\ CachesCreated({MINUTE})
    /\ ApiCreated(Directories)

NextDirectory ==
    \/ ApiTick
    \/ \E query \in DirQueries : list_posts(query, AnyOrder)
    \/ cache_clear
    \/ \E c \in Directories : DirectoryChanges(c)

SpecDirectory == InitDirectory /\ [][NextDirectory]_vars

\* The slug pattern as it is stated: one or more of [a-zA-Z0-9_-].
StatedSlugPattern(s) == Len(s) >= 1 /\ AllInClass(s)

\* The names of the directory whose stem matches the slug pattern and that
\* end in .md.
KeptNames(c) ==
    SelectSeq(c.names, LAMBDA name : EndsWith(name, DotMd) /\ StatedSlugPattern(Stem(name)))

\* C31: listing the slugs of a content directory that does not exist gives
\* the empty list and no error, and a listing leaves out every file name
\* whose stem does not match the slug pattern or that does not end in .md;
\* GET /posts on the missing directory is a 200 with total 0, and the empty
\* listing is cached like any other.
C31_DirectoryListing ==
    [][ IsListMiss =>
          LET slugs == list_post_slugs(content, AnyOrder)
          IN  /\ slugs.raised = Absent
              /\ content.dir = "missing" =>
                    /\ slugs.value = << >>
                    /\ api'[1].status = STATUS_OK
                    /\ api'[1].body[1].total = 0
                    /\ api'[1].body[1].posts = << >>
                    /\ posts_list_cache' =
                          << [ key |-> POSTS_LIST_KEY, value |-> << >>,
                               expires |-> now + cache_ttl_seconds ] >>
              /\ content.dir = "ok" =>
                    slugs.value = [ i \in 1..Len(KeptNames(content)) |->
                                      Stem(KeptNames(content)[i]) ] ]_vars

-----------------------------------------------------------------------------
(* How long a post that was added stays out of the listing, in the two      *)
(* modes of content_store.py.  In object-store mode the slugs come from the *)
(* cached slug map and each load goes through the map to get_object_text.   *)

\* The post these runs follow, and its object.
TrackedSlug == <<"a">>

TrackedKey == StoreKeys[1]

\* What the handlers find for the slugs of slug map m in the bucket: the
\* object of the slug's key is there, or is gone (NoSuchKey, hence
\* FileNotFoundError), or the store fails (S3Error, hence ContentError); a
\* slug the map does not have is not found.
S3Content(store, m) ==
    [ dir |-> "ok",
      files |->
        IF m.raised # Absent
        THEN [ slug \in Slugs |-> [ kind |-> "storage_error", date |-> << >> ] ]
        ELSE [ slug \in DOMAIN m.value |->
                 IF store.fails THEN [ kind |-> "storage_error", date |-> << >> ]
                 ELSE IF m.value[slug] \in store.keys
                      THEN [ kind |-> "post", date |-> <<57>> ]
                      ELSE [ kind |-> "not_found", date |-> << >> ] ] ]

\* list(slug_map.keys()).  (The order of the slugs shows only between posts
\* that load, and of the stems of StoreKeys one at most passes validate_slug.)
RECURSIVE SeqOfSet(_)
SeqOfSet(S) ==
    IF S = { } THEN << >>
    ELSE LET x == CHOOSE y \in S : TRUE IN << x >> \o SeqOfSet(S \ {x})

\* The handler of GET /posts in object-store mode: the cached listing, or on
\* a miss the listing built from the slugs of get_slug_to_key_map(), each
\* loaded through the map, sorted and cached.
ListPostsS3(store, query, t) ==
    LET g == GetPostsListCached(posts_list_cache, t)
        m == GetSlugToKeyMap(store, t)
        c == S3Content(store, m.result)
        slugs == SeqOfSet(DOMAIN m.result.value)
        built == BuildSummaries(c, slugs, << >>)
        went == [ lists |-> m.listed, loads |-> LoadsMade(c, slugs) ]
    IN  IF g.result # Absent
        THEN [ cache |-> g.cache, map_cache |-> slug_map_cache,
               response |-> Page(query, TRUE, g.result[1], NoStorage) ]
        ELSE IF m.result.raised # Absent
        THEN [ cache |-> g.cache, map_cache |-> m.cache,
               response |-> Failure(query, TRUE, "ContentError",
                                    [ lists |-> m.listed, loads |-> 0 ]) ]
        ELSE IF built.raised # Absent
        THEN [ cache |-> g.cache, map_cache |-> m.cache,
               response |-> Failure(query, TRUE, built.raised[1], went) ]
        ELSE LET all_summaries == SortByDateReverse(built.value)
             IN  [ cache |-> SetPostsListCached(g.cache, all_summaries, t),
                   map_cache |-> m.cache,
                   response |-> Page(query, FALSE, all_summaries, went) ]

\* The handler of GET /post/{slug} in object-store mode: the slug map is
\* read when the post cache misses and load_post_by_slug accepts the slug.
GetPostS3(store, slug, t) ==
    LET m == GetSlugToKeyMap(store, t)
        h == GetPost(S3Content(store, m.result), slug, t)
        loads == /\ SlugPatternMatch(slug)
                 /\ ~Contains(post_cache, slug, t)
                 /\ validate_slug(slug).raised = Absent
    IN  [ cache |-> h.cache,
          map_cache |-> IF loads THEN m.cache ELSE slug_map_cache,
          response |-> h.response ]

\* The sources of these runs, in either mode, with the tracked post there or
\* not; an object store holds one object a slug.
LocalSource(there) ==
    [ mode |-> "local", dir |-> "ok",
      files |-> [ slug \in Slugs |->
                    IF slug = TrackedSlug /\ there
                    THEN [ kind |-> "post", date |-> <<57>> ] ELSE NoFile ],
      keys |-> { }, fails |-> FALSE ]

ObjectSource(keys) ==
    [ mode |-> "s3", dir |-> "ok", files |-> [ slug \in Slugs |-> NoFile ],
      keys |-> keys, fails |-> FALSE ]

SourcesOf(mode) ==
    IF mode = "local" THEN { LocalSource(there) : there \in BOOLEAN }
    ELSE { ObjectSource(keys) : keys \in SUBSET { StoreKeys[1], StoreKeys[2], StoreKeys[3] } }

HasTracked(source) ==
    IF source.mode = "local" THEN source.files[TrackedSlug].kind = "post"
    ELSE TrackedKey \in source.keys

\* GET /posts in the mode of the source.
stale_list_posts(query) ==
    /\ IF content.mode = "local"
       THEN LET h == ListPosts(content, query, AnyOrder, now)
            IN  /\ posts_list_cache' = h.cache
                /\ api' = Some(h.response)
                /\ UNCHANGED slug_map_cache
       ELSE LET h == ListPostsS3(content, query, now)
            IN  /\ posts_list_cache' = h.cache
                /\ slug_map_cache' = h.map_cache
                /\ api' = Some(h.response)
    /\ UNCHANGED <<now, limiterVars, content, cache_ttl_seconds, post_cache, cache_op,
                   taskVars>>

MutGetPostDropsListing ==
    /\ IF content.mode = "local"
       THEN LET h == GetPost(content, TrackedSlug, now)
            IN  /\ post_cache' = h.cache
                /\ api' = Some(h.response)
                /\ UNCHANGED slug_map_cache
       ELSE LET h == GetPostS3(content, TrackedSlug, now)
            IN  /\ post_cache' = h.cache
                /\ slug_map_cache' = h.map_cache
                /\ api' = Some(h.response)
    /\ posts_list_cache' = EmptyCache
    /\ UNCHANGED <<now, limiterVars, content, cache_ttl_seconds, cache_op, taskVars>>

\* GET /post/a in the mode of the source.
stale_get_post ==
    /\ IF content.mode = "local"
       THEN LET h == GetPost(content, TrackedSlug, now)
            IN  /\ post_cache' = h.cache
                /\ api' = Some(h.response)
                /\ UNCHANGED slug_map_cache
       ELSE LET h == GetPostS3(content, TrackedSlug, now)
            IN  /\ post_cache' = h.cache
                /\ slug_map_cache' = h.map_cache
                /\ api' = Some(h.response)
    /\ UNCHANGED <<now, limiterVars, content, cache_ttl_seconds, posts_list_cache,
                   cache_op, taskVars>>

\* The source changes; `checked` keeps the time since which the tracked post
\* has been there without a break.
SourceChanges(source) ==
    /\ source # content
    /\ content' = source
    /\ checked' = IF ~HasTracked(source) THEN Absent
                  ELSE IF HasTracked(content) THEN checked
                  ELSE Some(now)
    /\ UNCHANGED <<now, limiterVars, cacheVars, api, tasks>>

StaleInstants == {30, 59, 60, 90, 120, 150}

StaleTick ==
    /\ \E t \in StaleInstants : t > now /\ now' = t
    /\ UNCHANGED <<limiterVars, cacheVars, apiVars, taskVars>>

InitStale ==
    /\ now = 0
    /\ LimiterCreated({PER_MINUTE}, {PER_HOUR}, {TRUE})
    /\ CachesCreated({MINUTE})
    /\ content \in { LocalSource(FALSE), ObjectSource({ }) }
    /\ api = Absent
    /\ checked = Absent
    /\ tasks = << >>

NextStale ==
    \/ StaleTick
    \/ stale_list_posts(NoQuery)
    \/ stale_get_post
    \/ cache_clear
    \/ \E source \in SourcesOf(content.mode) : SourceChanges(source)

SpecStale == InitStale /\ [][NextStale]_vars

\* The step is a GET /posts answered 200 when the tracked post has been in
\* the source for k times the ttl or longer.
ListedAfter(k) ==
    /\ IsListPosts /\ content' = content
    /\ api'[1].status = STATUS_OK
    /\ checked # Absent
    /\ now >= checked[1] + k * cache_ttl_seconds

TrackedListed ==
    \E i \in 1..Len(api'[1].all_summaries[1]) :
        api'[1].all_summaries[1][i].slug = TrackedSlug

\* C34 (amended): absent a cache clear, a post that is in the source without
\* a break from time t on is in every GET /posts listing served at or after
\* t + ttl in local-directory mode, and at or after t + 2 * ttl in
\* object-store mode (one object a slug), where a listing may be built from
\* a slug map that is up to one ttl old.
C34_StalenessBound ==
    [][ /\ (ListedAfter(1) /\ content.mode = "local") => TrackedListed
        /\ (ListedAfter(2) /\ content.mode = "s3") => TrackedListed ]_vars

\* A listing with the post in it, served from the cache in object-store
\* mode two ttl after the post was added at a time later than 0.
C34_Witness ==
    /\ content.mode = "s3"
    /\ checked # Absent /\ checked[1] > 0
    /\ now >= checked[1] + 2 * cache_ttl_seconds
    /\ api # Absent /\ api[1].route = "/posts" /\ api[1].status = STATUS_OK
    /\ api[1].cache_hit
    /\ api[1].body[1].total = 1
    /\ Contains(slug_map_cache, SLUG_MAP_KEY, now)

\* C34 as stated: one ttl bounds the staleness in both modes.
C34_AsStated ==
    [][ ListedAfter(1) => TrackedListed ]_vars

-----------------------------------------------------------------------------
(* A request from the middleware to its handler.  dispatch answers a        *)
(* limited request itself and returns; call_next, and with it the routing   *)
(* and the handler, is reached by a request that is skipped or allowed.     *)

MutCallsNextAlways(rec) == TRUE

\* dispatch reaches `await call_next(request)`.
CallsNext(rec) == rec.reached_next

\* The routes of these runs.
ServedPaths == {HEALTH_PATH, "/posts", "/post/{slug}", "/cache/clear"}

ServedRequests ==
    { [ path |-> path, xff |-> Some(<<"a">>), real_ip |-> Absent, peer |-> Absent ] :
        path \in ServedPaths }

\* What the handler of a path does to the three caches, and its response.
RunHandler(path, t) ==
    CASE path = "/posts" ->
            LET h == ListPosts(content, NoQuery, AnyOrder, t)
            IN  [ posts_list |-> h.cache, post |-> post_cache, slug_map |-> slug_map_cache,
                  response |-> h.response ]
      [] path = "/post/{slug}" ->
            LET h == GetPost(content, TrackedSlug, t)
            IN  [ posts_list |-> posts_list_cache, post |-> h.cache,
                  slug_map |-> slug_map_cache, response |-> h.response ]
      [] path = "/cache/clear" ->
            [ posts_list |-> EmptyCache, post |-> EmptyCache, slug_map |-> EmptyCache,
              response |-> [ route |-> "/cache/clear", status |-> STATUS_OK ] ]
      [] path = HEALTH_PATH ->
            [ posts_list |-> posts_list_cache, post |-> post_cache,
              slug_map |-> slug_map_cache,
              response |-> [ route |-> HEALTH_PATH, status |-> STATUS_OK ] ]

\* A request is served: dispatch, and the handler when call_next is reached.
\* `api` is the response of the handler this request invoked, if it did.
Serve(request) ==
    LET d == Dispatch(buckets, request, now, Some(STATUS_OK))
        ran == CallsNext(d.rec)
        h == RunHandler(request.path, now)
    IN  /\ buckets' = d.buckets
        /\ last' = Some(d.rec)
        /\ posts_list_cache' = IF ran THEN h.posts_list ELSE posts_list_cache
        /\ post_cache' = IF ran THEN h.post ELSE post_cache
        /\ slug_map_cache' = IF ran THEN h.slug_map ELSE slug_map_cache
        /\ api' = IF ran THEN Some(h.response) ELSE Absent
        /\ UNCHANGED <<now, requests_per_minute, requests_per_hour, enabled, buckets2,
                       seenY, seenY2, cache_ttl_seconds, cache_op, content, taskVars>>

InitServed ==
    /\ now = 0
    /\ LimiterCreated({MaxPerMinute}, {MaxPerHour}, BOOLEAN)
    /\ CachesCreated({DEFAULT_TTL})
    /\ ApiCreated({LocalSource(TRUE), LocalSource(FALSE)})

NextServed ==
    \/ RequestTick
    \/ \E request \in ServedRequests : Serve(request)

SpecServed == InitServed /\ [][NextServed]_vars

\* C35: a request the rate limiter answers 429 invokes no handler (so reads
\* and writes no cache and reaches no storage): the three caches, entries
\* and order of use, are as they were before it.
C35_DeniedTouchesNothing ==
    [][ ( /\ IsDispatch
          /\ last'[1].response.status = STATUS_TOO_MANY ) =>
            /\ api' = Absent
            /\ posts_list_cache' = posts_list_cache
            /\ post_cache' = post_cache
            /\ slug_map_cache' = slug_map_cache
            /\ cache_op' = cache_op
            /\ content' = content ]_vars

\* A request was denied while the listing and a post were cached.
C35_Witness ==
    /\ last # Absent
    /\ last[1].is_limited
    /\ last[1].response.status = STATUS_TOO_MANY
    /\ last[1].request.path \in {"/posts", "/post/{slug}", "/cache/clear"}
    /\ api = Absent
    /\ Contains(posts_list_cache, POSTS_LIST_KEY, now)
    /\ Contains(post_cache, TrackedSlug, now)

-----------------------------------------------------------------------------
(* Responses served from the cache against the responses of the requests    *)
(* that filled it, with the directory changing in between.                  *)

\* Directories of two or three posts; the post "a" is edited, added, deleted.
ReplayContents ==
    { [ dir |-> "ok",
        files |-> [ slug \in Slugs |->
                      IF slug = <<"a">> THEN fa
                      ELSE IF slug = <<"-">> THEN [ kind |-> "post", date |-> <<57>> ]
                      ELSE [ kind |-> "post", date |-> <<49, 48>> ] ] ] :
        fa \in {NoFile} \cup [ kind : {"post"}, date : Dates ] }

\* The pages asked for: the default, and the second page of one post.
ReplayQueries == { NoQuery, [ limit |-> Some(1), offset |-> Some(1) ] }

\* The posts asked for.
ReplaySlugs == { <<"a">>, <<"-">> }

\* `checked` keeps the response of the miss that filled each key.
NothingFilled == Some([ list |-> Absent, post |-> [ slug \in Slugs |-> Absent ] ])

Fills(response) == response.status = STATUS_OK /\ ~response.cache_hit

replay_list_posts(query) ==
    /\ \E order \in ListdirOrders(query) :
          LET h == ListPosts(content, query, order, now)
          IN  /\ posts_list_cache' = h.cache
              /\ api' = Some(h.response)
              /\ checked' = IF Fills(h.response)
                            THEN Some([ checked[1] EXCEPT !.list = Some(h.response) ])
                            ELSE checked
    /\ UNCHANGED <<now, limiterVars, content, cache_ttl_seconds, post_cache,
                   slug_map_cache, cache_op, tasks>>

replay_get_post(slug) ==
    /\ LET h == GetPost(content, slug, now)
       IN  /\ post_cache' = h.cache
           /\ api' = Some(h.response)
           /\ checked' = IF Fills(h.response)
                         THEN Some([ checked[1] EXCEPT !.post[slug] = Some(h.response) ])
                         ELSE checked
    /\ UNCHANGED <<now, limiterVars, content, cache_ttl_seconds, posts_list_cache,
                   slug_map_cache, cache_op, tasks>>

InitReplay ==
    /\ now = 0
    /\ LimiterCreated({PER_MINUTE}, {PER_HOUR}, {TRUE})
    /\ CachesCreated({MINUTE})
    /\ content \in ReplayContents
    /\ api = Absent
    /\ checked = NothingFilled
    /\ tasks = << >>

NextReplay ==
    \/ FlightTick
    \/ \E query \in ReplayQueries : replay_list_posts(query)
    \/ \E slug \in ReplaySlugs : replay_get_post(slug)
    \/ cache_clear
    \/ \E c \in ReplayContents : ContentChanges(c)

SpecReplay == InitReplay /\ [][NextReplay]_vars

\* C36: a GET /post/{slug} served from the cache has the body and the
\* headers, ETag included, of the miss that filled the entry; a GET /posts
\* served from the cache is the page of the listing that miss built, with
\* the headers of that page, and for the limit and offset of the miss it is
\* the miss's own body and headers.
C36_HitReplaysMiss ==
    [][ /\ (IsGetPost /\ api'[1].cache_hit) =>
              /\ checked[1].post[api'[1].slug] # Absent
              /\ LET miss == checked[1].post[api'[1].slug][1]
                 IN  /\ api'[1].status = miss.status
                     /\ api'[1].body = miss.body
                     /\ api'[1].headers = miss.headers
        /\ (IsListPosts /\ api'[1].cache_hit) =>
              /\ checked[1].list # Absent
              /\ LET miss == checked[1].list[1]
                     same == Page(api'[1].query, FALSE, miss.all_summaries[1], NoStorage)
                 IN  /\ api'[1].status = miss.status
                     /\ api'[1].all_summaries = miss.all_summaries
                     /\ api'[1].body = same.body
                     /\ api'[1].headers = same.headers
                     /\ api'[1].query = miss.query =>
                           /\ api'[1].body = miss.body
                           /\ api'[1].headers = miss.headers ]_vars

\* A post served from the cache after its file was edited, and a page
\* served from the cache after the directory changed.
C36_Witness ==
    /\ api # Absent
    /\ api[1].route = "/post/{slug}"
    /\ api[1].status = STATUS_OK /\ api[1].cache_hit
    /\ api[1].slug = <<"a">>
    /\ content.files[<<"a">>].kind = "post"
    /\ BuildDetail(<<"a">>, content.files[<<"a">>]).value # api[1].body[1]
    /\ Contains(posts_list_cache, POSTS_LIST_KEY, now)
    /\ EntryOf(posts_list_cache, POSTS_LIST_KEY).value
          # ListPosts(content, NoQuery, AnyOrder, now + MINUTE).response.all_summaries[1]

\* The limits of the pages: one post, two posts, and the largest allowed.
PageLimits == {1, 2, MAX_PAGE_LIMIT}

\* The response to GET /posts?limit=<limit>&offset=<k * limit> now.
PageAt(limit, k) ==
    ListPosts(content, [ limit |-> Some(limit), offset |-> Some(k * limit) ],
              AnyOrder, now).response

\* The posts of the pages k, k + 1, ... final, one after the other.
RECURSIVE PagesFrom(_, _, _)
PagesFrom(limit, k, final) ==
    IF k > final THEN << >>
    ELSE PageAt(limit, k).body[1].posts \o PagesFrom(limit, k + 1, final)

\* C37: while the posts-list cache holds a listing, for every limit the
\* pages at offsets 0, limit, 2 * limit, ... are served from it, each with
\* at most limit posts and with the listing's length as total, and one after
\* the other they are the cached, sorted listing: no post twice, none
\* missing; the pages past the end are empty.
C37_PagesPartition ==
    Contains(posts_list_cache, POSTS_LIST_KEY, now) =>
        LET listing == EntryOf(posts_list_cache, POSTS_LIST_KEY).value
            n == Len(listing)
        IN  /\ NonIncreasingByDate(listing)
            /\ \A i, j \in 1..n : listing[i].slug = listing[j].slug => i = j
            /\ \A limit \in PageLimits :
                  /\ PagesFrom(limit, 0, n) = listing
                  /\ \A k \in 0..n :
                        LET page == PageAt(limit, k)
                        IN  /\ page.status = STATUS_OK /\ page.cache_hit
                            /\ page.body[1].total = n
                            /\ Len(page.body[1].posts) <= limit
                            /\ k * limit >= n => page.body[1].posts = << >>

\* A cached listing of three posts, in pages of one and of two, after the
\* directory lost one of them.
C37_Witness ==
    /\ Contains(posts_list_cache, POSTS_LIST_KEY, now)
    /\ Len(EntryOf(posts_list_cache, POSTS_LIST_KEY).value) = 3
    /\ content.files[<<"a">>] = NoFile
    /\ Len(PageAt(1, 2).body[1].posts) = 1
    /\ Len(PageAt(2, 1).body[1].posts) = 1
    /\ Len(PageAt(2, 0).body[1].posts) = 2

\* The step is a POST /cache/clear.
IsCacheClear == now' = now /\ api' # Absent /\ api'[1].route = "/cache/clear"

C39_PostCacheKeys ==
    \A i \in 1..Len(post_cache) :
        LET k == post_cache[i].key
            detail == post_cache[i].value
        IN  /\ WellFormedSlug(k)
            /\ PathValid(k) /\ SlugPatternMatch(k)
            /\ validate_slug(k) = Returned(k)
            /\ detail.meta.slug = k
            /\ k \in DOMAIN content.files
            /\ load_post_by_slug(content, k).raised = Absent
            /\ BuildDetail(k, load_post_by_slug(content, k).value) = Returned(detail)

\* The post cache holds the post "a" while the directory holds a post whose
\* file name ends in a newline, and the request for that one was answered
\* 422.
C39_Witness ==
    /\ Contains(post_cache, <<"a">>, now)
    /\ content.files[<<"a", "\n">>].kind = "post"
    /\ api # Absent
    /\ api[1].route = "/post/{slug}"
    /\ api[1].slug = <<"a", "\n">>
    /\ api[1].status = STATUS_UNPROCESSABLE

-----------------------------------------------------------------------------
(* The object-store client (s3_client.py): the module global _s3_client,    *)
(* kept here in `checked`, and in `tasks` the calls made so far with the    *)
(* client each get_s3_client returned.  Clients are numbered as boto3       *)
(* creates them; two clients are the same object when their numbers agree.  *)

\* The calls of a run.
MaxCalls == 7

\* boto3.client("s3", ...): a new object, none of those created before.
Boto3Client(calls) ==
    1 + Cardinality({ i \in 1..Len(calls) : calls[i].call = "get" /\ calls[i].created })

MutGetS3ClientAlwaysNew(client, calls) ==
    [ client |-> Some(Boto3Client(calls)), result |-> Boto3Client(calls), created |-> TRUE ]

\* get_s3_client(): the client of the global, created first when it is None.
GetS3Client(client, calls) ==
    IF client = Absent
    THEN [ client |-> Some(Boto3Client(calls)), result |-> Boto3Client(calls),
           created |-> TRUE ]
    ELSE [ client |-> client, result |-> client[1], created |-> FALSE ]

get_s3_client ==
    LET g == GetS3Client(checked, tasks)
    IN  /\ Len(tasks) < MaxCalls
        /\ checked' = g.client
        /\ tasks' = Append(tasks, [ call |-> "get", result |-> g.result,
                                    created |-> g.created ])
        /\ UNCHANGED <<now, limiterVars, cacheVars, apiVars>>

\* reset_s3_client(): _s3_client = None
reset_s3_client ==
    /\ Len(tasks) < MaxCalls
    /\ checked' = Absent
    /\ tasks' = Append(tasks, [ call |-> "reset", result |-> 0, created |-> FALSE ])
    /\ UNCHANGED <<now, limiterVars, cacheVars, apiVars>>

\* The module as imported: no client yet.
InitClient ==
    /\ now = 0
    /\ LimiterCreated({PER_MINUTE}, {PER_HOUR}, {TRUE})
    /\ CachesCreated({DEFAULT_TTL})
    /\ ApiCreated({NoDirectory})

NextClient ==
    \/ get_s3_client
    \/ reset_s3_client

SpecClient == InitClient /\ [][NextClient]_vars

\* A reset lies between the calls i and j.
ResetBetween(i, j) == \E r \in (i + 1)..(j - 1) : tasks[r].call = "reset"

\* C40: no client exists before the first get_s3_client; two get_s3_client
\* calls with no reset between them return the same client; the first call
\* after a reset creates a client that no earlier call returned, so two
\* calls with a reset between them return different clients.
C40_Singleton ==
    /\ (\A i \in 1..Len(tasks) : tasks[i].call = "reset") => checked = Absent
    /\ \A i, j \in 1..Len(tasks) :
          (i < j /\ tasks[i].call = "get" /\ tasks[j].call = "get") =>
              /\ ~ResetBetween(i, j) => tasks[j].result = tasks[i].result /\ ~tasks[j].created
              /\ ResetBetween(i, j) => tasks[j].result # tasks[i].result
              /\ tasks[j - 1].call = "reset" => tasks[j].created
    /\ \A j \in 1..Len(tasks) :
          tasks[j].call = "get" => (tasks[j].created <=> (j = 1 \/ tasks[j - 1].call = "reset"))

\* get, get, reset, get, get: the first two calls returned one client, the
\* last two another.
C40_Witness ==
    /\ Len(tasks) >= 5
    /\ tasks[1].call = "get" /\ tasks[2].call = "get" /\ tasks[3].call = "reset"
    /\ tasks[4].call = "get" /\ tasks[5].call = "get"
    /\ tasks[1].result = tasks[2].result
    /\ tasks[4].result = tasks[5].result
    /\ tasks[1].result # tasks[4].result
    /\ checked = Some(tasks[5].result)

====
